---- MODULE Spec2Model ----
(***************************************************************************)
(* AlloraLens prediction lifecycle: the predictions table, the ingestion   *)
(* action, the update-accuracy cron job, the CoinGecko ground-truth        *)
(* fetcher with its retry wrapper, and the accuracy calculator.            *)
(*                                                                         *)
(* Units: instants are epoch milliseconds; prices are in cents (two        *)
(* decimals kept as an integer); accuracies are in hundredths of a         *)
(* percent (10000 = 100.00).                                               *)
(***************************************************************************)
EXTENDS Integers, Naturals, Sequences, FiniteSets, TLC

VARIABLES
    rows,      \* the predictions table: a sequence of row records, id = position
    jobs,      \* the update-accuracy invocations: locals of each GET handler
    ing,       \* the fetchAndStoreAlloraPredictionsAction invocation: its locals
    fx,        \* one fetchBtcPriceAtTimestampAction call observed attempt by attempt
    met,       \* the getAccuracyMetricsAction invocation: its locals and its result
    upd,       \* one updatePredictionWithAccuracyAction call made on its own
    runs       \* overlapping ingestion invocations observed await by await

vars == <<rows, jobs, ing, fx, met, upd, runs>>

----------------------------------------------------------------------------
(* Bounds of the model *)

MaxRows == 2          \* rows the table may hold
SubSecondMs == 500    \* a clock reading that is not on a whole second

(* Program constants *)

MAX_RETRIES == 3
RECENT_MS == 60000
FIVE_MIN_MS == 300000
EIGHT_HOUR_MS == 28800000
MS_PER_SECOND == 1000
FIXED_POINT_SCALE == 100000000

----------------------------------------------------------------------------
(* JavaScript / SQL values: a number, NaN, undefined or NULL, tagged so that *)
(* every value has the same shape.                                          *)

Num(v) == [t |-> "num", v |-> v]
NaNV == [t |-> "nan", v |-> 0]
UndefinedV == [t |-> "undefined", v |-> 0]
NullV == [t |-> "null", v |-> 0]

IsNum(x) == x.t = "num"
IsNull(x) == x.t = "null"

Abs(n) == IF n < 0 THEN -n ELSE n
Max2(a, b) == IF a >= b THEN a ELSE b
Min2(a, b) == IF a <= b THEN a ELSE b

JobIds == {1, 2}

(* What new Date() / Date.now() may read. The wall clock is not monotonic  *)
(* (it is adjusted), so every reading is any of these: the epoch, a reading *)
(* within the same second, the next second, the maturity of a 5-minute      *)
(* prediction made in that next second, and one recency window after the    *)
(* maturity of a 5-minute prediction made at the epoch.                     *)
ClockValues ==
    {0, SubSecondMs, MS_PER_SECOND, FIVE_MIN_MS + MS_PER_SECOND, FIVE_MIN_MS + RECENT_MS}

(* The readings of the scoring job: before any maturity, at the maturity of *)
(* the later 5-minute prediction, and after both.                           *)
JobClock == {0, FIVE_MIN_MS + MS_PER_SECOND, FIVE_MIN_MS + RECENT_MS}

(* The readings of ingestion when the scoring job is the subject: two       *)
(* different seconds.                                                       *)
IngestClock == {0, MS_PER_SECOND}

(* Prices the ground-truth source may report, in cents. *)
Prices == {10000, 11000}

----------------------------------------------------------------------------
(* The arithmetic of a JavaScript Number: IEEE 754 binary64 *)

\* A natural number of any size is the sequence of its digits in base
\* LimbBase, least significant first, without leading zeros; <<>> is 0.
LimbBits == 15
LimbBase == 2^LimbBits

\* The bits a double keeps of a value
MantissaBits == 53

\* The largest element of a set of numbers that is not empty
Highest(S) == CHOOSE i \in S : \A j \in S : j <= i

\* x without its leading zeros
Trim(x) == SubSeq(x, 1, Highest({0} \cup {i \in 1..Len(x) : x[i] # 0}))

\* The digits of a number below 2^31
Limbs(n) ==
    Trim(<<n % LimbBase, (n \div LimbBase) % LimbBase, n \div (LimbBase * LimbBase)>>)

Limb(x, i) == IF 1 <= i /\ i <= Len(x) THEN x[i] ELSE 0

\* The number of a sequence of at most three digits, below 2^31
ToInt(x) == Limb(x, 1) + LimbBase * Limb(x, 2) + LimbBase * LimbBase * Limb(x, 3)

\* The carry into digit i of x + y: below i, the highest digit whose sum is
\* not LimbBase - 1 overflows
Carry(x, y, i) ==
    IF \E j \in 1..(i - 1) :
          /\ Limb(x, j) + Limb(y, j) >= LimbBase
          /\ \A l \in (j + 1)..(i - 1) : Limb(x, l) + Limb(y, l) = LimbBase - 1
    THEN 1 ELSE 0

BigAdd(x, y) ==
    IF x = <<>> THEN y
    ELSE IF y = <<>> THEN x
    ELSE Trim([i \in 1..(Max2(Len(x), Len(y)) + 1) |->
            (Limb(x, i) + Limb(y, i) + Carry(x, y, i)) % LimbBase])

\* The borrow from digit i of x - y: below i, the highest digit in which x
\* and y differ is smaller in x
Borrow(x, y, i) ==
    IF \E j \in 1..(i - 1) :
          /\ Limb(x, j) < Limb(y, j)
          /\ \A l \in (j + 1)..(i - 1) : Limb(x, l) = Limb(y, l)
    THEN 1 ELSE 0

\* x - y for x >= y
BigSub(x, y) ==
    IF y = <<>> THEN x
    ELSE Trim([i \in 1..Len(x) |->
            (Limb(x, i) - Limb(y, i) - Borrow(x, y, i) + LimbBase) % LimbBase])

\* 1, 0, -1 as x is above, equal to, below y in the highest digit of D, the
\* digits in which they differ
CmpAt(x, y, D) ==
    IF D = {} THEN 0
    ELSE IF Limb(x, Highest(D)) > Limb(y, Highest(D)) THEN 1
    ELSE -1

\* 1, 0, -1 as x is above, equal to, below y
BigCmp(x, y) ==
    IF Len(x) > Len(y) THEN 1
    ELSE IF Len(x) < Len(y) THEN -1
    ELSE CmpAt(x, y, {i \in 1..Len(x) : x[i] # y[i]})

\* x * k for 0 <= k <= LimbBase: the low halves of the products of the digits
\* plus their high halves one digit up
BigMulSmall(x, k) ==
    IF x = <<>> \/ k = 0 THEN <<>>
    ELSE BigAdd(Trim([i \in 1..Len(x) |-> (x[i] * k) % LimbBase]),
                Trim([i \in 1..(Len(x) + 1) |-> (Limb(x, i - 1) * k) \div LimbBase]))

\* x * 2^n
ShiftLeft(x, n) ==
    IF x = <<>> THEN <<>>
    ELSE [i \in 1..(n \div LimbBits) |-> 0] \o BigMulSmall(x, 2^(n % LimbBits))

\* floor(x / 2^b) for b < LimbBits
ShiftRightBits(x, b) ==
    Trim([i \in 1..Len(x) |->
            (x[i] \div 2^b) + (Limb(x, i + 1) % 2^b) * 2^(LimbBits - b)])

\* floor(x / 2^n)
ShiftRight(x, n) ==
    IF n \div LimbBits >= Len(x) THEN <<>>
    ELSE ShiftRightBits(SubSeq(x, n \div LimbBits + 1, Len(x)), n % LimbBits)

BitLength(x) ==
    IF x = <<>> THEN 0
    ELSE LimbBits * (Len(x) - 1)
            + (CHOOSE b \in 1..LimbBits : 2^(b-1) <= x[Len(x)] /\ x[Len(x)] < 2^b)

\* The largest digit g with d * g <= cur, one of guess, guess - 1, guess - 2
LargestDigit(cur, d, guess) ==
    IF BigCmp(BigMulSmall(d, guess), cur) <= 0 THEN guess
    ELSE IF BigCmp(BigMulSmall(d, guess - 1), cur) <= 0 THEN guess - 1
    ELSE guess - 2

\* The digit floor(cur / d) for cur < d * LimbBase and a divisor whose leading
\* digit is at least LimbBase / 2: the two leading digits of cur divided by
\* the leading digit of d are at most 2 above it
QuotientDigit(cur, d) ==
    IF BigCmp(cur, d) < 0 THEN 0
    ELSE LargestDigit(cur, d,
            Min2(LimbBase - 1,
                 (Limb(cur, Len(d) + 1) * LimbBase + Limb(cur, Len(d))) \div d[Len(d)]))

\* The digits a quotient of RoundToDouble has at most: it is below 2^56
QuotientDigits == 4

\* Long division from digit i of x down, r being what the digits above have
\* left and q the digits of the quotient they have brought: cur is r with
\* digit i of x brought down, and g the digit of the quotient it gives
RECURSIVE DivModFrom(_, _, _, _, _)

DivModNext(x, d, i, cur, g, q) ==
    IF g = 0 THEN DivModFrom(x, d, i - 1, cur, <<0>> \o q)
    ELSE DivModFrom(x, d, i - 1, BigSub(cur, BigMulSmall(d, g)), <<g>> \o q)

DivModDigit(x, d, i, cur, q) == DivModNext(x, d, i, cur, QuotientDigit(cur, d), q)

DivModFrom(x, d, i, r, q) ==
    IF i = 0 THEN [q |-> Trim(q), r |-> r]
    ELSE DivModDigit(x, d, i, Trim(<<Limb(x, i)>> \o r), q)

\* The remainder of a division in which both sides were multiplied by 2^k
Unscaled(dm, k) == [q |-> dm.q, r |-> ShiftRight(dm.r, k)]

\* Long division of x by d for a divisor whose leading digit is at least
\* LimbBase / 2 and a quotient below LimbBase^QuotientDigits: the digits of x
\* above the fourth are the first remainder, and each digit below brings one
\* digit of the quotient. The remainder is handed back divided by 2^k.
LongDivMod(x, d, k) ==
    Unscaled(DivModFrom(x, d, QuotientDigits, SubSeq(x, QuotientDigits + 1, Len(x)), <<>>), k)

\* Quotient and remainder of x by d, d > 0, for a quotient below
\* LimbBase^QuotientDigits: both are multiplied by 2^k so that the leading
\* digit of the divisor is at least LimbBase / 2
BigDivMod(x, d) ==
    LongDivMod(ShiftLeft(x, (LimbBits - (BitLength(d) % LimbBits)) % LimbBits),
               ShiftLeft(d, (LimbBits - (BitLength(d) % LimbBits)) % LimbBits),
               (LimbBits - (BitLength(d) % LimbBits)) % LimbBits)

\* A double that is not negative: m * 2^e with m below 2^53 (or equal to it)
Double(m, e) == [m |-> m, e |-> e]

\* q * 2^e brought to t bits less, to the nearest and on a tie to the even
\* mantissa; inexact tells that q is a quotient with a remainder
Nearest(q, t, inexact, e) ==
    Double(IF \/ Limb(q, 1) % 2^t > 2^(t-1)
              \/ /\ Limb(q, 1) % 2^t = 2^(t-1)
                 /\ (inexact \/ Limb(ShiftRight(q, t), 1) % 2 = 1)
           THEN BigAdd(ShiftRight(q, t), Limbs(1))
           ELSE ShiftRight(q, t),
           e + t)

\* The quotient dm.q with its remainder dm.r, times 2^e, as a double
Rounded(dm, e) ==
    IF BitLength(dm.q) <= MantissaBits THEN Double(dm.q, e)
    ELSE Nearest(dm.q, BitLength(dm.q) - MantissaBits, dm.r # <<>>, e)

\* (n * 2^s / d) * 2^(e - s) as a double
Scaled(n, d, e, s) ==
    Rounded(BigDivMod(ShiftLeft(n, Max2(s, 0)), ShiftLeft(d, Max2(-s, 0))), e - s)

\* The double nearest to (n / d) * 2^e, ties to the even mantissa: what every
\* operation of a Number returns for its exact result. The quotient is taken
\* to 55 or 56 bits, and the bits beyond 53 and the remainder decide.
RoundToDouble(n, d, e) ==
    IF n = <<>> THEN Double(<<>>, 0)
    ELSE Scaled(n, d, e, MantissaBits + 2 + BitLength(d) - BitLength(n))

\* The mantissa of x at the exponent e, e <= x.e
MantissaAt(x, e) == ShiftLeft(x.m, x.e - e)

\* 1, 0, -1 as x is above, equal to, below y
DoubleCmp(x, y) ==
    IF x.e <= y.e THEN BigCmp(x.m, MantissaAt(y, x.e))
    ELSE BigCmp(MantissaAt(x, y.e), y.m)

\* x + y
DoubleAdd(x, y) ==
    IF x.e <= y.e THEN RoundToDouble(BigAdd(x.m, MantissaAt(y, x.e)), Limbs(1), x.e)
    ELSE RoundToDouble(BigAdd(MantissaAt(x, y.e), y.m), Limbs(1), y.e)

\* Math.abs(a - b) * 2^e for whole numbers a, b
AbsDiffAt(a, b, e) ==
    RoundToDouble(IF BigCmp(a, b) >= 0 THEN BigSub(a, b) ELSE BigSub(b, a), Limbs(1), e)

\* Math.abs(x - y)
DoubleAbsDiff(x, y) ==
    IF x.e <= y.e THEN AbsDiffAt(x.m, MantissaAt(y, x.e), x.e)
    ELSE AbsDiffAt(MantissaAt(x, y.e), y.m, y.e)

\* x / y, y > 0
DoubleDiv(x, y) == RoundToDouble(x.m, y.m, x.e - y.e)

\* x * k for a whole number k, 0 <= k <= LimbBase
DoubleTimes(x, k) == RoundToDouble(BigMulSmall(x.m, k), Limbs(1), x.e)

\* The Number a decimal text with two places denotes: n is the value in
\* hundredths, n >= 0
NumberOfHundredths(n) == RoundToDouble(Limbs(n), Limbs(100), 0)

\* parseFloat(x.toFixed(2)) in hundredths, for x >= 0: the integer n for which
\* n / 100 is nearest to the exact value of x, the larger n on a tie, that is
\* floor(x * 100 + 1/2)
toFixed2(x) ==
    IF x.e >= 0 THEN ToInt(ShiftLeft(BigMulSmall(x.m, 100), x.e))
    ELSE ToInt(ShiftRight(BigAdd(BigMulSmall(x.m, 200), ShiftLeft(Limbs(1), -x.e)),
                          1 - x.e))

----------------------------------------------------------------------------
(* lib/math.ts *)

\* toFixed(2) of normalizePredictionValue on the quotient num / den (den > 0),
\* in hundredths: the nearest hundredth. No quotient of this model lies on a
\* half of a hundredth, where the binary value of the Number would decide.
RoundHalfUp(num, den) == (2 * num + den) \div (2 * den)

\* Line 43: Math.abs(actualPrice - predictedPrice) for the magnitudes a and p
\* of the two prices, of the same sign or not
absoluteError(a, p, sameSign) ==
    IF sameSign THEN DoubleAbsDiff(a, p) ELSE DoubleAdd(a, p)

\* Line 44: the magnitude of absoluteError / actualPrice; its sign is that of
\* actualPrice
relativeError(a, absError) == DoubleDiv(absError, a)

\* An accuracy that is the relative error itself, as a percentage
accuracy_NoComplement(negative, relError) == DoubleTimes(relError, 100)

\* Line 45: the magnitude of (1 - relativeError) * 100, for a relative error
\* of magnitude relError that is negative or not
accuracy(negative, relError) ==
    DoubleTimes(IF negative THEN DoubleAdd(Double(Limbs(1), 0), relError)
                ELSE DoubleAbsDiff(Double(Limbs(1), 0), relError), 100)

\* Line 49: Math.min(accuracy, 100)
AtMost100(acc) ==
    IF DoubleCmp(acc, Double(Limbs(100), 0)) > 0 THEN Double(Limbs(100), 0) ELSE acc

\* A score without Math.max and Math.min: the magnitude of (1 - relativeError)
\* * 100, whatever it is
boundedAccuracy_Unbounded(negative, relError) == toFixed2(accuracy(negative, relError))

\* A score without Math.max(0, ...): a relative error above 1 is not raised
\* to 0 but scored by its distance from 1
boundedAccuracy_NoFloor(negative, relError) ==
    toFixed2(AtMost100(accuracy(negative, relError)))

\* Lines 45-52, in hundredths of a percent
boundedAccuracy(negative, relError) ==
    IF DoubleCmp(relError, Double(Limbs(1), 0)) > 0 /\ ~negative
    THEN \* accuracy < 0, raised to 0
         0
    ELSE toFixed2(AtMost100(accuracy(negative, relError)))

\* Lines 43-52 for the magnitudes a and p of the two prices
Score(negative, sameSign, a, p) ==
    boundedAccuracy(negative, relativeError(a, absoluteError(a, p, sameSign)))

\* A zero branch that scores every prediction 0, the exact one included
calculateAccuracy_ZeroNeverExact(actualPrice, predictedPrice) ==
    IF IsNum(actualPrice) /\ actualPrice.v = 0
    THEN Num(0)
    ELSE IF ~IsNum(actualPrice) \/ ~IsNum(predictedPrice) THEN NaNV
    ELSE Num(Score(actualPrice.v < 0, (actualPrice.v < 0) = (predictedPrice.v < 0),
                   NumberOfHundredths(Abs(actualPrice.v)),
                   NumberOfHundredths(Abs(predictedPrice.v))))

\* Lines 33-53; .v is the value in cents
calculateAccuracy(actualPrice, predictedPrice) ==
    IF IsNum(actualPrice) /\ actualPrice.v = 0
    THEN (IF IsNum(predictedPrice) /\ predictedPrice.v = 0 THEN Num(10000) ELSE Num(0))
    ELSE IF ~IsNum(actualPrice) \/ ~IsNum(predictedPrice) THEN NaNV
    ELSE Num(Score(actualPrice.v < 0, (actualPrice.v < 0) = (predictedPrice.v < 0),
                   NumberOfHundredths(Abs(actualPrice.v)),
                   NumberOfHundredths(Abs(predictedPrice.v))))

----------------------------------------------------------------------------
(* coingecko-actions: upstream replies *)

\* One reply of the upstream to one fetch(): either the fetch rejects (network
\* failure) or a Response with a status and a body.
Reply(neterr, status, json, hasPrices, prices, hasCoin, usd) ==
    [ neterr |-> neterr, status |-> status, json |-> json,
      hasPrices |-> hasPrices, prices |-> prices,
      hasCoin |-> hasCoin, usd |-> usd ]

NetErr == Reply(TRUE, 0, FALSE, FALSE, <<>>, FALSE, UndefinedV)
ErrStatus(s) == Reply(FALSE, s, TRUE, FALSE, <<>>, FALSE, UndefinedV)
HistOk(prices) == Reply(FALSE, 200, TRUE, TRUE, prices, FALSE, UndefinedV)
HistNoPrices == Reply(FALSE, 200, TRUE, FALSE, <<>>, FALSE, UndefinedV)
BadJson == Reply(FALSE, 200, FALSE, FALSE, <<>>, FALSE, UndefinedV)
CurOk(p) == Reply(FALSE, 200, TRUE, FALSE, <<>>, TRUE, Num(p))
CurNoUsd == Reply(FALSE, 200, TRUE, FALSE, <<>>, TRUE, UndefinedV)
CurNoCoin == Reply(FALSE, 200, TRUE, FALSE, <<>>, FALSE, UndefinedV)
NoReply == Reply(FALSE, 0, FALSE, FALSE, <<>>, FALSE, UndefinedV)

\* Response.ok
ResponseOk(r) == r.status >= 200 /\ r.status <= 299

Point(ts, price) == [ts |-> ts, price |-> price]

----------------------------------------------------------------------------
(* coingecko-actions: fetchWithRetry *)

\* A wrapper that still retries when no retry is left
fetchWithRetry_RetryAtZero(reply, retries) ==
    IF reply.neterr
    THEN (IF retries >= 0 THEN "retry" ELSE "throw")
    ELSE IF reply.status = 429 /\ retries >= 0 THEN "retry"
    ELSE "return"

\* What fetchWithRetry does with the reply of one attempt when `retries`
\* retries are left: "retry" (sleep, then call itself with retries - 1),
\* "return" the response, or "throw" the network error.
fetchWithRetry(reply, retries) ==
    IF reply.neterr
    THEN (IF retries > 0 THEN "retry" ELSE "throw")
    ELSE IF reply.status = 429 /\ retries > 0 THEN "retry"
    ELSE "return"

----------------------------------------------------------------------------
(* coingecko-actions: getCurrentBtcPrice and fetchBtcPriceAtTimestampAction, *)
(* as functions of what fetchWithRetry finally hands back for each URL.      *)

Thrown(msg) == [thrown |-> TRUE, value |-> UndefinedV, message |-> msg]
Returned(v) == [thrown |-> FALSE, value |-> v, message |-> ""]

\* c: the final reply of fetchWithRetry(currentPriceUrl)
getCurrentBtcPrice(c) ==
    IF c.neterr THEN Thrown("network")
    ELSE IF ~ResponseOk(c) THEN Thrown("Failed to fetch current BTC price. Status")
    ELSE IF ~c.json THEN Thrown("json")
    ELSE IF ~c.hasCoin THEN Thrown("TypeError")
    ELSE Returned(c.usd)

ActionOk(msg, price, calls) ==
    [isSuccess |-> TRUE, message |-> msg, price |-> price, calls |-> calls]
ActionFail(msg, calls) ==
    [isSuccess |-> FALSE, message |-> msg, price |-> UndefinedV, calls |-> calls]

\* A test that also takes the target exactly a minute old
UseCurrentPrice_Inclusive(targetTimestampMs, now) == targetTimestampMs >= now - RECENT_MS

\* line 238: the target is in the future or less than a minute old
UseCurrentPrice(targetTimestampMs, now) == targetTimestampMs > now - RECENT_MS

\* lines 266-268: the historical response for which the current price is tried
FallsBackToCurrent(h) == ~h.neterr /\ ~ResponseOk(h) /\ h.status = 400

\* lines 308-319: the first point with the smallest |timestamp - target|
RECURSIVE ClosestFrom(_, _, _, _)
ClosestFrom(prices, i, targetTimestampMs, best) ==
    IF i > Len(prices) THEN best
    ELSE LET diff == Abs(prices[i].ts - targetTimestampMs)
         IN  IF best = 0 \/ diff < Abs(prices[best].ts - targetTimestampMs)
             THEN ClosestFrom(prices, i + 1, targetTimestampMs, i)
             ELSE ClosestFrom(prices, i + 1, targetTimestampMs, best)

\* A selection that keeps the last of the points at the smallest distance
ClosestPricePoint_LastTie(prices, targetTimestampMs) ==
    prices[CHOOSE k \in 1..Len(prices) :
              /\ \A m \in 1..Len(prices) :
                    Abs(prices[k].ts - targetTimestampMs) <= Abs(prices[m].ts - targetTimestampMs)
              /\ \A m \in (k + 1)..Len(prices) :
                    Abs(prices[k].ts - targetTimestampMs) < Abs(prices[m].ts - targetTimestampMs)]

ClosestPricePoint(prices, targetTimestampMs) ==
    prices[ClosestFrom(prices, 1, targetTimestampMs, 0)]

\* lines 262-342 once fetchWithRetry(apiUrl) has handed back h and the
\* response is not one that falls back. The message of the outer catch ends
\* with error.message, which tells a rejected fetch from a body that is not
\* JSON.
HistoricalResult(h, targetTimestampMs) ==
    IF h.neterr
    THEN ActionFail("An unexpected error occurred while fetching BTC price: fetch failed",
                    <<"hist">>)
    ELSE IF ~ResponseOk(h)
    THEN (IF h.status = 429
          THEN ActionFail("CoinGecko API rate limit exceeded", <<"hist">>)
          ELSE ActionFail("CoinGecko API request failed with status", <<"hist">>))
    ELSE IF ~h.json
    THEN ActionFail("An unexpected error occurred while fetching BTC price: Unexpected token",
                    <<"hist">>)
    ELSE IF ~h.hasPrices \/ Len(h.prices) = 0
    THEN ActionFail("No price data found", <<"hist">>)
    ELSE ActionOk("BTC price fetched successfully.",
                  Num(ClosestPricePoint(h.prices, targetTimestampMs).price), <<"hist">>)

\* lines 239-253
DirectCurrentResult(c) ==
    LET cur == getCurrentBtcPrice(c)
    IN  IF cur.thrown
        THEN ActionFail("Failed to fetch current BTC price", <<"cur">>)
        ELSE ActionOk("Current BTC price fetched successfully.", cur.value, <<"cur">>)

\* lines 269-283
FallbackResult(c) ==
    LET cur == getCurrentBtcPrice(c)
    IN  IF cur.thrown
        THEN ActionFail("Failed to fetch both historical and current prices", <<"hist", "cur">>)
        ELSE ActionOk("Fell back to current BTC price as historical data was unavailable.",
                      cur.value, <<"hist", "cur">>)

\* h, c: what fetchWithRetry finally hands back for the historical-range URL
\* and for the current-price URL (each is used only if that URL is fetched)
fetchBtcPriceAtTimestampAction(targetTimestampMs, now, h, c) ==
    IF UseCurrentPrice(targetTimestampMs, now) THEN DirectCurrentResult(c)
    ELSE IF FallsBackToCurrent(h) THEN FallbackResult(c)
    ELSE HistoricalResult(h, targetTimestampMs)

----------------------------------------------------------------------------
(* db/schema/predictions-schema and actions/db/predictions-actions *)

PredictionTypes == {"5-min", "8-hour"}

\* A numeric column takes the text of a number or 'NaN'; any other text
\* ("undefined") is rejected by the database with an error.
ValidNumeric(v) == v.t \in {"num", "nan"}

\* The row the table holds for an insert: id, actual_price, accuracy and
\* updated_at are not supplied by the caller and take the column defaults.
NewRow(tbl, data, dbNow) ==
    [ id |-> Len(tbl) + 1,
      prediction_type |-> data.prediction_type,
      predicted_value |-> data.predicted_value,
      confidence_interval_lower |-> data.confidence_interval_lower,
      confidence_interval_upper |-> data.confidence_interval_upper,
      prediction_end_timestamp |-> data.prediction_end_timestamp,
      actual_price |-> NullV,
      accuracy |-> NullV,
      raw_inference_data |-> data.raw_inference_data,
      created_at |-> data.created_at,
      updated_at |-> dbNow ]

\* createPredictionAction: the table after the INSERT
createPredictionAction(tbl, data, dbNow) == Append(tbl, NewRow(tbl, data, dbNow))

\* A SELECT whose WHERE clause uses lte instead of lt
getMaturePredictionsForUpdateAction_Lte(tbl, now) ==
    SelectSeq(tbl, LAMBDA r : r.prediction_end_timestamp <= now /\ IsNull(r.accuracy))

\* A SELECT whose WHERE clause lacks isNull(accuracy)
getMaturePredictionsForUpdateAction_AnyAccuracy(tbl, now) ==
    SelectSeq(tbl, LAMBDA r : r.prediction_end_timestamp < now)

\* A SELECT that only takes rows that ended within the last minute
getMaturePredictionsForUpdateAction_RecentOnly(tbl, now) ==
    SelectSeq(tbl, LAMBDA r : /\ r.prediction_end_timestamp < now
                              /\ r.prediction_end_timestamp > now - RECENT_MS
                              /\ IsNull(r.accuracy))

\* getMaturePredictionsForUpdateAction: the rows the SELECT returns
getMaturePredictionsForUpdateAction(tbl, now) ==
    SelectSeq(tbl, LAMBDA r : r.prediction_end_timestamp < now /\ IsNull(r.accuracy))

\* A SET clause that writes the ground truth and leaves the score for a
\* second statement
SetAccuracy_ActualPriceOnly(r, data, now) ==
    [r EXCEPT !.actual_price = data.actual_price,
              !.updated_at = now]

\* The SET clause of updatePredictionWithAccuracyAction applied to one row
SetAccuracy(r, data, now) ==
    [r EXCEPT !.actual_price = data.actual_price,
              !.accuracy = data.accuracy,
              !.updated_at = now]

\* An UPDATE without its WHERE clause
UpdateWhereId_NoWhere(tbl, id, data, now) ==
    [i \in 1..Len(tbl) |-> SetAccuracy(tbl[i], data, now)]

\* updatePredictionWithAccuracyAction: the table after UPDATE ... WHERE id = id
UpdateWhereId(tbl, id, data, now) ==
    [i \in 1..Len(tbl) |-> IF tbl[i].id = id THEN SetAccuracy(tbl[i], data, now) ELSE tbl[i]]

\* updatePredictionWithAccuracyAction: whether the UPDATE returns a row. The
\* statement fails as a whole when a value is no numeric text.
UpdateReturnsRow(tbl, id, data) ==
    /\ ValidNumeric(data.actual_price)
    /\ ValidNumeric(data.accuracy)
    /\ \E i \in 1..Len(tbl) : tbl[i].id = id

\* parseFloat of the text of a numeric column
parseFloatNumeric(v) == IF IsNum(v) THEN v ELSE NaNV

----------------------------------------------------------------------------
(* actions/allora-actions: fetchAndStoreAlloraPredictionsAction *)

topicsToFetch ==
    << [timeframe |-> "5m", type |-> "5-min", durationMs |-> FIVE_MIN_MS],
       [timeframe |-> "8h", type |-> "8-hour", durationMs |-> EIGHT_HOUR_MS] >>

\* A value of the forecast network as text: "decimal" holds a '.', and n is
\* its value in thousandths; "integer" holds none, and n is the integer;
\* "garbage" is text parseFloat cannot read.
RawValue(kind, n) == [kind |-> kind, n |-> n]

normalizePredictionValue(value) ==
    IF value.kind = "decimal" THEN Num(RoundHalfUp(value.n, 10))
    ELSE IF value.kind = "integer"
    THEN Num(RoundHalfUp(value.n, FIXED_POINT_SCALE \div 100))
    ELSE NaNV

\* A utcNow that keeps the milliseconds of the reading
utcNow_KeepMs(now) == now

\* lines 157-167: the clock reading cut to whole seconds
utcNow(now) == (now \div MS_PER_SECOND) * MS_PER_SECOND

\* A findFirst that compares the end timestamp with the wrong column
existingPrediction_ByCreatedAt(tbl, type, predictionEndTimestamp) ==
    \E i \in 1..Len(tbl) :
        /\ tbl[i].prediction_type = type
        /\ tbl[i].created_at = predictionEndTimestamp

\* lines 176-181: findFirst on (prediction_type, prediction_end_timestamp)
existingPrediction(tbl, type, predictionEndTimestamp) ==
    \E i \in 1..Len(tbl) :
        /\ tbl[i].prediction_type = type
        /\ tbl[i].prediction_end_timestamp = predictionEndTimestamp

\* lines 191-218
insertData(config, inferenceData, now) ==
    LET ciValues == inferenceData.confidence_interval_values
    IN  [ prediction_type |-> config.type,
          predicted_value |-> normalizePredictionValue(inferenceData.network_inference),
          confidence_interval_lower |->
              IF Len(ciValues) > 0 THEN normalizePredictionValue(ciValues[1]) ELSE NullV,
          confidence_interval_upper |->
              IF Len(ciValues) > 0 THEN normalizePredictionValue(ciValues[Len(ciValues)])
              ELSE NullV,
          prediction_end_timestamp |-> utcNow(now) + config.durationMs,
          raw_inference_data |->
              [ network_inference |-> inferenceData.network_inference,
                timestamp |-> utcNow(now) \div MS_PER_SECOND ],
          created_at |-> utcNow(now) ]

Result(timeframe, success, message) ==
    [timeframe |-> timeframe, success |-> success, message |-> message]

\* A pass that reports a row found present as a failure
ProcessTopic_DuplicateFails(tbl, config, inference, now, lookupOk, insertOk) ==
    IF inference.kind = "throw"
    THEN [tbl |-> tbl, result |-> Result(config.timeframe, FALSE, "API fetch/process failed")]
    ELSE IF inference.kind = "nodata"
    THEN [tbl |-> tbl, result |-> Result(config.timeframe, FALSE, "No inference data")]
    ELSE IF ~lookupOk
    THEN [tbl |-> tbl, result |-> Result(config.timeframe, FALSE, "API fetch/process failed")]
    ELSE IF existingPrediction(tbl, config.type, utcNow(now) + config.durationMs)
    THEN [tbl |-> tbl, result |-> Result(config.timeframe, FALSE, "DB store failed")]
    ELSE IF ~insertOk
    THEN [tbl |-> tbl, result |-> Result(config.timeframe, FALSE, "DB store failed")]
    ELSE [tbl |-> createPredictionAction(tbl, insertData(config, inference, now), now),
          result |-> Result(config.timeframe, TRUE, "")]

\* One pass of the for loop (lines 132-247) for `config`, given what the
\* awaited calls do: the inference the SDK hands back (or its throwing), and
\* whether the lookup and the insert reach the database. The table after the
\* pass and the entry pushed to `results`.
ProcessTopic(tbl, config, inference, now, lookupOk, insertOk) ==
    IF inference.kind = "throw"
    THEN [tbl |-> tbl, result |-> Result(config.timeframe, FALSE, "API fetch/process failed")]
    ELSE IF inference.kind = "nodata"
    THEN [tbl |-> tbl, result |-> Result(config.timeframe, FALSE, "No inference data")]
    ELSE IF ~lookupOk
    THEN [tbl |-> tbl, result |-> Result(config.timeframe, FALSE, "API fetch/process failed")]
    ELSE IF existingPrediction(tbl, config.type, utcNow(now) + config.durationMs)
    THEN [tbl |-> tbl, result |-> Result(config.timeframe, TRUE, "")]
    ELSE IF ~insertOk
    THEN [tbl |-> tbl, result |-> Result(config.timeframe, FALSE, "DB store failed")]
    ELSE [tbl |-> createPredictionAction(tbl, insertData(config, inference, now), now),
          result |-> Result(config.timeframe, TRUE, "")]

\* lines 249-270: the ActionState returned for `results`
RECURSIVE FailedMessages(_)
FailedMessages(results) ==
    IF results = <<>> THEN <<>>
    ELSE IF ~Head(results).success
         THEN <<Head(results).message>> \o FailedMessages(Tail(results))
         ELSE FailedMessages(Tail(results))

\* An outcome that is a success as soon as one horizon succeeded
IngestOutcome_Some(results) ==
    IF (\E i \in 1..Len(results) : results[i].success) /\ Len(results) > 0
    THEN [isSuccess |-> TRUE, message |-> <<"All Allora predictions fetched and stored successfully.">>]
    ELSE IF Len(results) = 0
    THEN [isSuccess |-> FALSE, message |-> <<"No Allora timeframes configured or processed.">>]
    ELSE [isSuccess |-> FALSE, message |-> <<"Some predictions failed">> \o FailedMessages(results)]

\* lines 249-270: the ActionState returned for `results`
IngestOutcome(results) ==
    IF (\A i \in 1..Len(results) : results[i].success) /\ Len(results) > 0
    THEN [isSuccess |-> TRUE, message |-> <<"All Allora predictions fetched and stored successfully.">>]
    ELSE IF Len(results) = 0
    THEN [isSuccess |-> FALSE, message |-> <<"No Allora timeframes configured or processed.">>]
    ELSE [isSuccess |-> FALSE, message |-> <<"Some predictions failed">> \o FailedMessages(results)]

\* What the forecast network may hand back for one timeframe
ThrowingInference ==
    [kind |-> "throw", network_inference |-> RawValue("garbage", 0),
     confidence_interval_values |-> <<>>]
NoInference ==
    [kind |-> "nodata", network_inference |-> RawValue("garbage", 0),
     confidence_interval_values |-> <<>>]
DecimalInference ==
    [kind |-> "data", network_inference |-> RawValue("decimal", 100004),
     confidence_interval_values |-> <<>>]
GarbageInference ==
    [kind |-> "data", network_inference |-> RawValue("garbage", 0),
     confidence_interval_values |-> <<>>]

Inferences == {ThrowingInference, NoInference, DecimalInference, GarbageInference}

\* A GET request as the bearer-token triggers see it: the Authorization header
\* and process.env.CRON_SECRET, each as the list of its parts (<<>> when the
\* header is absent or the variable is unset)
Request(authHeader, cronSecret) == [authHeader |-> authHeader, cronSecret |-> cronSecret]

AuthHeaders == { <<>>, <<"Bearer ", "secret">>, <<"Bearer ", "guess">>, <<"secret">> }
CronSecrets == { <<>>, <<"secret">> }
Requests == { Request(h, c) : h \in AuthHeaders, c \in CronSecrets }

\* The request of the scheduler: the configured secret as a bearer token
CronRequest == Request(<<"Bearer ", "secret">>, <<"secret">>)

\* String.prototype.replace(part, ""): the first occurrence is taken out
RECURSIVE replace(_, _)
replace(text, part) ==
    IF text = <<>> THEN <<>>
    ELSE IF Head(text) = part THEN Tail(text)
    ELSE <<Head(text)>> \o replace(Tail(text), part)

\* A check of the token that only asks for a header and a secret
Authenticate_NoTokenCheck(request) ==
    IF request.authHeader = <<>> THEN 401
    ELSE IF request.cronSecret = <<>> THEN 500
    ELSE 0

\* update-accuracy/route.ts lines 47-75, update-predictions/route.ts lines
\* 118-148: the status of the refusal, 0 when the request is let through
Authenticate(request) ==
    LET token == replace(request.authHeader, "Bearer ")
    IN  IF request.authHeader = <<>> THEN 401
        ELSE IF request.cronSecret = <<>> THEN 500
        ELSE IF token # request.cronSecret THEN 403
        ELSE 0

\* The JSON body of a response: its message, and its errors when it has any
Body(message, hasErrors, errors) ==
    [message |-> message, hasErrors |-> hasErrors, errors |-> errors]

\* The bodies of the refusals
RefusalBody(status) ==
    IF status = 401 THEN Body("Authorization header is required.", FALSE, <<>>)
    ELSE IF status = 500
    THEN Body("Server configuration error: CRON_SECRET is missing.", FALSE, <<>>)
    ELSE Body("Invalid cron secret.", FALSE, <<>>)

\* What process.env.ALLORA_CHAIN_SLUG may hold: a valid name in either case, a
\* name that is not a chain, or nothing
ChainSlugEnvs == {"mainnet", "TESTNET", "devnet", "unset"}

\* line 90: ?.toLowerCase()
toLowerCase(slug) == IF slug = "TESTNET" THEN "testnet" ELSE slug

\* lines 100-110
alloraChainSlug(alloraChainSlugEnv) ==
    IF alloraChainSlugEnv = "mainnet" THEN "MAINNET"
    ELSE IF alloraChainSlugEnv = "testnet" THEN "TESTNET"
    ELSE "TESTNET"

\* app/api/cron/update-predictions/route.ts lines 46-67 (POST) and 150-184
\* (GET): the status of the response for the value the action returned
TriggerStatus(isSuccess) == IF isSuccess THEN 200 ELSE 500

\* passes: for every pass of the loop, the id of the row it inserted (0: none)
\* and what new Date() on line 157 read in a pass that inserted one.
\* apiKey, env: whether the run found ALLORA_API_KEY set, and ALLORA_CHAIN_SLUG
\* as it found it; chain: the chain it chose. request: the request being
\* answered; status: the status of the response.
IngIdle ==
    [pc |-> "idle", idx |-> 1, results |-> <<>>, isSuccess |-> FALSE, message |-> <<>>,
     passes |-> <<>>, apiKey |-> FALSE, env |-> "unset", chain |-> "none", status |-> 0,
     request |-> Request(<<>>, <<>>)]

\* update-predictions/route.ts lines 116-153 and allora-actions.ts lines
\* 89-130: authentication, configuration and client construction. requests:
\* the requests that may arrive; keys, clients: whether ALLORA_API_KEY may be
\* set or unset, and whether the constructor may throw; slugs: what
\* ALLORA_CHAIN_SLUG may hold.
IngestStartIn(requests, keys, slugs, clients) ==
    /\ ing.pc \in {"idle", "done"}
    /\ \E request \in requests :
        IF Authenticate(request) # 0
        THEN ing' = [IngIdle EXCEPT !.pc = "done", !.request = request,
                        !.message = <<RefusalBody(Authenticate(request)).message>>,
                        !.status = Authenticate(request)]
        ELSE \E alloraApiKey \in keys, alloraChainSlugEnv \in slugs, clientOk \in clients :
            LET entered == [IngIdle EXCEPT !.request = request, !.env = alloraChainSlugEnv]
            IN  IF ~alloraApiKey
                THEN ing' = [entered EXCEPT !.pc = "done",
                                !.message = <<"Allora API key not configured. Cannot fetch predictions.">>,
                                !.status = TriggerStatus(FALSE)]
                ELSE IF ~clientOk
                THEN ing' = [entered EXCEPT !.pc = "done", !.apiKey = TRUE,
                                !.chain = alloraChainSlug(toLowerCase(alloraChainSlugEnv)),
                                !.message = <<"Failed to initialize Allora SDK client.">>,
                                !.status = TriggerStatus(FALSE)]
                ELSE ing' = [entered EXCEPT !.pc = "loop", !.apiKey = TRUE,
                                !.chain = alloraChainSlug(toLowerCase(alloraChainSlugEnv))]
    /\ UNCHANGED <<rows, jobs, fx, met, upd, runs>>

\* What a pass leaves in the log of the run
Pass(now, before, after) ==
    [created |-> IF Len(after) > Len(before) THEN Len(after) ELSE 0,
     now |-> IF Len(after) > Len(before) THEN now ELSE 0]

\* A loop that is left at the first horizon that fails
IngestTopicIn_BreakOnFailure(inferences, stores, clocks) ==
    /\ ing.pc = "loop"
    /\ ing.idx <= Len(topicsToFetch)
    /\ \E inference \in inferences, lookupOk \in stores, insertOk \in stores,
          now \in clocks :
        LET out == ProcessTopic(rows, topicsToFetch[ing.idx], inference, now,
                                lookupOk, insertOk)
        IN  /\ Len(out.tbl) <= MaxRows
            /\ rows' = out.tbl
            /\ ing' = [ing EXCEPT
                          !.idx = IF out.result.success THEN @ + 1
                                  ELSE Len(topicsToFetch) + 1,
                          !.results = Append(@, out.result),
                          !.passes = Append(@, Pass(now, rows, out.tbl))]
    /\ UNCHANGED <<jobs, fx, met, upd, runs>>

\* lines 132-247: one pass of the loop. inferences: what the forecast network
\* may hand back; stores: whether a database call may fail; clocks: what
\* new Date() may read.
IngestTopicIn(inferences, stores, clocks) ==
    /\ ing.pc = "loop"
    /\ ing.idx <= Len(topicsToFetch)
    /\ \E inference \in inferences, lookupOk \in stores, insertOk \in stores,
          now \in clocks :
        LET out == ProcessTopic(rows, topicsToFetch[ing.idx], inference, now,
                                lookupOk, insertOk)
        IN  /\ Len(out.tbl) <= MaxRows
            /\ rows' = out.tbl
            /\ ing' = [ing EXCEPT !.idx = @ + 1, !.results = Append(@, out.result),
                          !.passes = Append(@, Pass(now, rows, out.tbl))]
    /\ UNCHANGED <<jobs, fx, met, upd, runs>>

\* The request of the scheduler, any configuration with a valid chain name, any
\* answer of the forecast network and of the database
IngestStart == IngestStartIn({CronRequest}, BOOLEAN, {"mainnet"}, BOOLEAN)
IngestTopic == IngestTopicIn(Inferences, BOOLEAN, ClockValues)

\* The configuration is complete, the database answers, and the forecast
\* network either has no inference for the topic or hands back a decimal one
IngestStartOk == IngestStartIn({CronRequest}, {TRUE}, {"mainnet"}, {TRUE})
IngestTopicOk == IngestTopicIn({NoInference, DecimalInference}, {TRUE}, IngestClock)

\* Any configuration at all; the forecast network and the database answer
IngestStartAnyConfig == IngestStartIn({CronRequest}, BOOLEAN, ChainSlugEnvs, BOOLEAN)

\* lines 249-270, and the status the trigger answers with
IngestReturn ==
    /\ ing.pc = "loop"
    /\ ing.idx > Len(topicsToFetch)
    /\ ing' = [ing EXCEPT !.pc = "done",
                  !.isSuccess = IngestOutcome(ing.results).isSuccess,
                  !.message = IngestOutcome(ing.results).message,
                  !.status = TriggerStatus(IngestOutcome(ing.results).isSuccess)]
    /\ UNCHANGED <<rows, jobs, fx, met, upd, runs>>

----------------------------------------------------------------------------
(* fetchAndStoreAlloraPredictionsAction, overlapping invocations: every     *)
(* awaited database call is a step of its own                               *)

RunIds == {1, 2}

\* The locals of one invocation: the loop position, `results`, and between
\* the lookup and the insert the clock reading and the inference of the pass
RunIdle ==
    [ pc |-> "idle", idx |-> 1, results |-> <<>>, now |-> 0,
      inference |-> NoInference, isSuccess |-> FALSE ]

\* A trigger (POST or GET of update-predictions) starts the action; the
\* configuration is complete
RunStart(i) ==
    /\ runs[i].pc = "idle"
    /\ runs' = [runs EXCEPT ![i] = [RunIdle EXCEPT !.pc = "loop"]]
    /\ UNCHANGED <<rows, jobs, ing, fx, met, upd>>

\* lines 132-189: the inference arrives, the clock is read and the awaited
\* findFirst answers from the table as it is now
RunFindFirst(i) ==
    /\ runs[i].pc = "loop"
    /\ runs[i].idx <= Len(topicsToFetch)
    /\ \E inference \in {NoInference, DecimalInference}, now \in IngestClock :
          LET config == topicsToFetch[runs[i].idx]
              predictionEndTimestamp == utcNow(now) + config.durationMs
          IN  IF inference.kind = "nodata"
              THEN runs' = [runs EXCEPT ![i] =
                      [runs[i] EXCEPT !.idx = @ + 1,
                          !.results = Append(@, Result(config.timeframe, FALSE,
                                                       "No inference data"))]]
              ELSE IF existingPrediction(rows, config.type, predictionEndTimestamp)
              THEN runs' = [runs EXCEPT ![i] =
                      [runs[i] EXCEPT !.idx = @ + 1,
                          !.results = Append(@, Result(config.timeframe, TRUE, ""))]]
              ELSE runs' = [runs EXCEPT ![i] =
                      [runs[i] EXCEPT !.pc = "insert", !.now = now,
                                      !.inference = inference]]
    /\ UNCHANGED <<rows, jobs, ing, fx, met, upd>>

\* lines 191-235: the awaited createPredictionAction inserts the row that
\* was built from the reading of line 157
RunCreatePrediction(i) ==
    /\ runs[i].pc = "insert"
    /\ Len(rows) < MaxRows
    /\ LET config == topicsToFetch[runs[i].idx]
       IN  /\ rows' = createPredictionAction(rows,
                          insertData(config, runs[i].inference, runs[i].now),
                          runs[i].now)
           /\ runs' = [runs EXCEPT ![i] =
                  [runs[i] EXCEPT !.pc = "loop", !.idx = @ + 1,
                      !.results = Append(@, Result(config.timeframe, TRUE, ""))]]
    /\ UNCHANGED <<jobs, ing, fx, met, upd>>

\* lines 249-270
RunReturn(i) ==
    /\ runs[i].pc = "loop"
    /\ runs[i].idx > Len(topicsToFetch)
    /\ runs' = [runs EXCEPT ![i] =
                   [runs[i] EXCEPT !.pc = "done",
                       !.isSuccess = IngestOutcome(runs[i].results).isSuccess]]
    /\ UNCHANGED <<rows, jobs, ing, fx, met, upd>>

----------------------------------------------------------------------------
(* app/api/cron/update-accuracy/route.ts: GET *)

JobIdle ==
    [ pc |-> "idle", batch |-> <<>>, idx |-> 1,
      updatedCount |-> 0, failedCount |-> 0, processingErrors |-> <<>>,
      actualPrice |-> UndefinedV, accuracy |-> UndefinedV, status |-> 0,
      request |-> Request(<<>>, <<>>),  \* the request being answered
      looked |-> FALSE,                 \* whether line 82 was reached
      lookupIsSuccess |-> FALSE,        \* maturePredictionsResult.isSuccess
      body |-> Body("", FALSE, <<>>),   \* the body of the response
      lookupNow |-> 0,   \* what new Date() read in the lookup of line 82
      fetched |-> <<>> ] \* the calls of line 125, in order

ProcessingError(predictionId, error) == [predictionId |-> predictionId, error |-> error]

\* One call of fetchBtcPriceAtTimestampAction: the row it is for, its
\* argument, and what Date.now() read inside it
FetchCall(predictionId, targetTimestampMs, now) ==
    [predictionId |-> predictionId, targetTimestampMs |-> targetTimestampMs, now |-> now]

\* A failure that ends the loop instead of going on with the next row
RowFailed_Break(job, error) ==
    [job EXCEPT !.pc = "loop",
                !.idx = Len(job.batch) + 1,
                !.failedCount = @ + 1,
                !.processingErrors = Append(@, ProcessingError(job.batch[job.idx].id, error)),
                !.actualPrice = UndefinedV,
                !.accuracy = UndefinedV]

\* The `continue` paths and the inner catch: record the failure, next row
RowFailed(job, error) ==
    [job EXCEPT !.pc = "loop",
                !.idx = @ + 1,
                !.failedCount = @ + 1,
                !.processingErrors = Append(@, ProcessingError(job.batch[job.idx].id, error)),
                !.actualPrice = UndefinedV,
                !.accuracy = UndefinedV]

\* lines 164-169
RowUpdated(job) ==
    [job EXCEPT !.pc = "loop",
                !.idx = @ + 1,
                !.updatedCount = @ + 1,
                !.actualPrice = UndefinedV,
                !.accuracy = UndefinedV]

\* Line 148 for the prices and the predicted values of this model, each pair
\* scored once
KnownAccuracies ==
    [ actual \in Prices,
      predicted \in { normalizePredictionValue(i.network_inference).v : i \in Inferences }
      |-> calculateAccuracy(Num(actual), Num(predicted)) ]

\* line 148: calculateAccuracy(actualPrice, predictedValue)
AccuracyOf(actualPrice, predictedValue) ==
    IF /\ IsNum(actualPrice) /\ IsNum(predictedValue)
       /\ <<actualPrice.v, predictedValue.v>> \in DOMAIN KnownAccuracies
    THEN KnownAccuracies[actualPrice.v, predictedValue.v]
    ELSE calculateAccuracy(actualPrice, predictedValue)

\* A loop body without the test of priceResult.isSuccess
AfterPriceResult_NoSuccessTest(job, priceResult) ==
    LET prediction == job.batch[job.idx]
        predictedValue == parseFloatNumeric(prediction.predicted_value)
    IN  IF ~IsNum(predictedValue) THEN RowFailed(job, "Invalid predicted_value format")
        ELSE [job EXCEPT !.pc = "update",
                         !.actualPrice = priceResult.price,
                         !.accuracy = AccuracyOf(priceResult.price, predictedValue)]

\* lines 125-148 for the row at job.idx: priceResult is what the awaited
\* fetchBtcPriceAtTimestampAction handed back
AfterPriceResult(job, priceResult) ==
    LET prediction == job.batch[job.idx]
        predictedValue == parseFloatNumeric(prediction.predicted_value)
    IN  IF ~priceResult.isSuccess THEN RowFailed(job, "Failed to fetch price")
        ELSE IF ~IsNum(predictedValue) THEN RowFailed(job, "Invalid predicted_value format")
        ELSE [job EXCEPT !.pc = "update",
                         !.actualPrice = priceResult.price,
                         !.accuracy = AccuracyOf(priceResult.price, predictedValue)]

\* A status that knows no total failure
ResponseStatus_NoTotalFailure(updatedCount, failedCount) ==
    IF failedCount > 0 THEN 207
    ELSE 200

\* lines 178-194
ResponseStatus(updatedCount, failedCount) ==
    IF failedCount > 0 /\ updatedCount > 0 THEN 207
    ELSE IF failedCount > 0 /\ updatedCount = 0 THEN 500
    ELSE 200

\* lines 178-194: the body that goes with the status
ResponseBody(updatedCount, failedCount, processingErrors) ==
    IF failedCount > 0 /\ updatedCount > 0
    THEN Body("Accuracy update processing completed.", TRUE, processingErrors)
    ELSE IF failedCount > 0 /\ updatedCount = 0
    THEN Body("Accuracy update processing completed.", TRUE, processingErrors)
    ELSE Body("Accuracy update processing completed.", FALSE, <<>>)

\* What fetchWithRetry may finally hand back for the historical-range URL of
\* `target`, and for the current-price URL
HistFinals(target) ==
    { NetErr, ErrStatus(400), ErrStatus(404), HistOk(<<>>) }
        \cup { HistOk(<<Point(target, p)>>) : p \in Prices }
CurFinals == { NetErr, CurNoUsd } \cup { CurOk(p) : p \in Prices }

\* A failed lookup that is answered like an empty batch
LookupFailed_AsEmptyBatch(entered) ==
    [entered EXCEPT !.pc = "done", !.status = 200,
                    !.body = Body("No mature predictions to update.", FALSE, <<>>)]

\* lines 83-93: the lookup did not succeed
LookupFailed(entered) ==
    [entered EXCEPT !.pc = "done", !.status = 500,
                    !.body = Body("Failed to fetch mature predictions", FALSE, <<>>)]

\* lines 45-108: the authentication, the lookup and the early returns.
\* requests: the requests that may arrive.
JobStartIn(j, requests) ==
    /\ jobs[j].pc \in {"idle", "done"}
    /\ \E request \in requests :
        IF Authenticate(request) # 0
        THEN jobs' = [jobs EXCEPT ![j] =
                         [JobIdle EXCEPT !.pc = "done", !.request = request,
                                         !.status = Authenticate(request),
                                         !.body = RefusalBody(Authenticate(request))]]
        ELSE \E lookupOk \in BOOLEAN, now \in JobClock :
            LET maturePredictions == getMaturePredictionsForUpdateAction(rows, now)
                entered == [JobIdle EXCEPT !.request = request, !.looked = TRUE]
            IN  IF ~lookupOk
                THEN jobs' = [jobs EXCEPT ![j] = LookupFailed(entered)]
                ELSE IF Len(maturePredictions) = 0
                THEN jobs' = [jobs EXCEPT ![j] =
                                 [entered EXCEPT !.pc = "done", !.status = 200,
                                     !.lookupIsSuccess = TRUE,
                                     !.lookupNow = now,
                                     !.body = Body("No mature predictions to update.",
                                                   FALSE, <<>>)]]
                ELSE jobs' = [jobs EXCEPT ![j] =
                                 [entered EXCEPT !.pc = "loop",
                                                 !.lookupIsSuccess = TRUE,
                                                 !.batch = maturePredictions,
                                                 !.lookupNow = now]]
    /\ UNCHANGED <<rows, ing, fx, met, upd, runs>>

\* The trigger as the scheduler calls it
JobStart(j) == JobStartIn(j, {CronRequest})

\* lines 114-148 and 170-175: the row up to the awaited update. The column is
\* NOT NULL and read as a Date, so the guard of line 117 never holds.
JobFetchPrice(j) ==
    /\ jobs[j].pc = "loop"
    /\ jobs[j].idx <= Len(jobs[j].batch)
    /\ LET prediction == jobs[j].batch[jobs[j].idx]
           target == prediction.prediction_end_timestamp
       IN  \/ \E h \in HistFinals(target), c \in CurFinals, now \in JobClock :
                 jobs' = [jobs EXCEPT ![j] =
                     AfterPriceResult(
                         [jobs[j] EXCEPT !.fetched =
                             Append(@, FetchCall(prediction.id, target, now))],
                         fetchBtcPriceAtTimestampAction(target, now, h, c))]
           \/ jobs' = [jobs EXCEPT ![j] = RowFailed(jobs[j], "Unexpected error processing")]
    /\ UNCHANGED <<rows, ing, fx, met, upd, runs>>

\* Prices and predicted values in cents for the arithmetic of line 148:
\* negative, zero, a fraction of a dollar, the values of lib/tests/math.test.ts,
\* and a price of the size of a Bitcoin price
MathValues ==
    { -500, 0, 29, 32, 50, 3300, 3333, 7000, 7500, 9000, 10000, 11000, 30000,
      3999400, 4000000 }

\* lines 135-148 for a price the fetcher handed back, whatever the price
JobScore(j) ==
    /\ jobs[j].pc = "loop"
    /\ jobs[j].idx <= Len(jobs[j].batch)
    /\ \E actual \in MathValues :
          jobs' = [jobs EXCEPT ![j] =
              AfterPriceResult(jobs[j],
                  ActionOk("Historical BTC price fetched successfully.",
                           Num(actual), <<"hist">>))]
    /\ UNCHANGED <<rows, ing, fx, met, upd, runs>>

\* lines 151-169: the awaited updatePredictionWithAccuracyAction
JobUpdate(j) ==
    /\ jobs[j].pc = "update"
    /\ LET id == jobs[j].batch[jobs[j].idx].id
           data == [actual_price |-> jobs[j].actualPrice, accuracy |-> jobs[j].accuracy]
       IN  \E storeOk \in BOOLEAN, now \in JobClock :
              IF storeOk /\ UpdateReturnsRow(rows, id, data)
              THEN /\ rows' = UpdateWhereId(rows, id, data, now)
                   /\ jobs' = [jobs EXCEPT ![j] = RowUpdated(jobs[j])]
              ELSE /\ rows' = rows
                   /\ jobs' = [jobs EXCEPT ![j] = RowFailed(jobs[j], "Failed to update accuracy")]
    /\ UNCHANGED <<ing, fx, met, upd, runs>>

\* lines 178-194: the loop is over
JobReturn(j) ==
    /\ jobs[j].pc = "loop"
    /\ jobs[j].idx > Len(jobs[j].batch)
    /\ jobs' = [jobs EXCEPT ![j] =
                   [jobs[j] EXCEPT !.pc = "done",
                       !.status = ResponseStatus(jobs[j].updatedCount, jobs[j].failedCount),
                       !.body = ResponseBody(jobs[j].updatedCount, jobs[j].failedCount,
                                             jobs[j].processingErrors)]]
    /\ UNCHANGED <<rows, ing, fx, met, upd, runs>>

\* The invocation is killed between two awaits: its locals are gone
JobKill(j) ==
    /\ jobs[j].pc \in {"loop", "update"}
    /\ jobs' = [jobs EXCEPT ![j] = JobIdle]
    /\ UNCHANGED <<rows, ing, fx, met, upd, runs>>

\* A call of updatePredictionWithAccuracyAction made on its own: its
\* arguments and the isSuccess of the ActionState it returned
UpdIdle ==
    [ pc |-> "idle", id |-> 0,
      data |-> [actual_price |-> UndefinedV, accuracy |-> UndefinedV],
      isSuccess |-> FALSE ]

\* The data of such a call: two pairs of numbers, and a pair whose text the
\* numeric columns reject
UpdateData ==
    { [actual_price |-> Num(10000), accuracy |-> Num(10000)],
      [actual_price |-> Num(11000), accuracy |-> Num(9091)],
      [actual_price |-> UndefinedV, accuracy |-> UndefinedV] }

\* part_003 lines 572-615: the call as a whole, for the id of a row or for an
\* id that no row has. The failure of lines 595-600 and the one of the catch
\* both leave the table as it was.
updatePredictionWithAccuracyAction ==
    /\ \E id \in 1..(MaxRows + 1), data \in UpdateData, storeOk \in BOOLEAN,
          now \in JobClock :
          LET updatedPrediction == storeOk /\ UpdateReturnsRow(rows, id, data)
          IN  /\ rows' = IF updatedPrediction THEN UpdateWhereId(rows, id, data, now)
                         ELSE rows
              /\ upd' = [pc |-> "done", id |-> id, data |-> data,
                         isSuccess |-> updatedPrediction]
    /\ UNCHANGED <<jobs, ing, fx, met, runs>>

----------------------------------------------------------------------------
(* One fetchBtcPriceAtTimestampAction call, attempt by attempt *)

FxIdle ==
    [ pc |-> "idle", target |-> 0, now |-> 0, url |-> "", retries |-> 0,
      attempts |-> 0, last |-> NoReply, log |-> <<>>,
      h |-> NoReply, c |-> NoReply, result |-> ActionFail("", <<>>) ]

\* The instants a price is asked for: a whole second each, one second apart
FetchTargets == {FIVE_MIN_MS - MS_PER_SECOND, FIVE_MIN_MS, FIVE_MIN_MS + MS_PER_SECOND}

\* What the upstream may answer to one request for the historical range
\* around `target`, or for the current price
HistReplies(target) ==
    { NetErr, ErrStatus(429), ErrStatus(400), ErrStatus(404), ErrStatus(500),
      BadJson, HistNoPrices, HistOk(<<>>),
      HistOk(<<Point(target - MS_PER_SECOND, 10000), Point(target + MS_PER_SECOND, 11000)>>),
      HistOk(<<Point(target + RECENT_MS, 10000), Point(target, 11000)>>),
      HistOk(<<Point(target + RECENT_MS, 11000), Point(target - MS_PER_SECOND, 10000),
               Point(target + MS_PER_SECOND, 11000)>>) }
CurReplies ==
    { NetErr, ErrStatus(429), ErrStatus(500), BadJson, CurNoCoin, CurNoUsd }
        \cup { CurOk(p) : p \in Prices }

\* lines 222-238 and 256-264: the call starts; fetchWithRetry is entered for
\* the current-price URL or for the historical-range URL
FxStarted(target, now) ==
    [FxIdle EXCEPT !.pc = "attempt",
                   !.target = target,
                   !.now = now,
                   !.url = IF UseCurrentPrice(target, now) THEN "cur" ELSE "hist",
                   !.retries = MAX_RETRIES]

FxCall ==
    /\ fx.pc \in {"idle", "done"}
    /\ \E target \in FetchTargets, now \in ClockValues :
        fx' = FxStarted(target, now)
    /\ UNCHANGED <<rows, jobs, ing, met, upd, runs>>

\* fetchWithRetry has handed back `reply` for fx.url: the rest of
\* fetchBtcPriceAtTimestampAction, or the fallback's own fetchWithRetry
FxHandedBack(reply) ==
    IF fx.url = "hist" /\ FallsBackToCurrent(reply)
    THEN [fx EXCEPT !.url = "cur", !.retries = MAX_RETRIES, !.attempts = 0,
                    !.last = NoReply, !.log = Append(@, "hist"), !.h = reply]
    ELSE LET h == IF fx.url = "hist" THEN reply ELSE fx.h
             c == IF fx.url = "cur" THEN reply ELSE fx.c
         IN  [fx EXCEPT !.pc = "done", !.attempts = @ + 1, !.last = reply,
                        !.log = Append(@, fx.url), !.h = h, !.c = c,
                        !.result = fetchBtcPriceAtTimestampAction(fx.target, fx.now, h, c)]

\* One fetch() inside fetchWithRetry and what follows from its reply
FxAttempt ==
    /\ fx.pc = "attempt"
    /\ \E reply \in (IF fx.url = "hist" THEN HistReplies(fx.target) ELSE CurReplies) :
        IF fetchWithRetry(reply, fx.retries) = "retry"
        THEN fx' = [fx EXCEPT !.retries = @ - 1, !.attempts = @ + 1, !.last = reply,
                              !.log = Append(@, fx.url)]
        ELSE fx' = FxHandedBack(reply)
    /\ UNCHANGED <<rows, jobs, ing, met, upd, runs>>

----------------------------------------------------------------------------
(* route.ts lines 125-148 with the fetcher observed attempt by attempt *)

\* line 125: the call of fetchBtcPriceAtTimestampAction for the row at idx
JobFetchCall(j) ==
    /\ jobs[j].pc = "loop"
    /\ jobs[j].idx <= Len(jobs[j].batch)
    /\ fx.pc \in {"idle", "done"}
    /\ LET prediction == jobs[j].batch[jobs[j].idx]
           target == prediction.prediction_end_timestamp
       IN  \E now \in JobClock :
              /\ fx' = FxStarted(target, now)
              /\ jobs' = [jobs EXCEPT ![j] =
                             [jobs[j] EXCEPT !.pc = "fetch",
                                 !.fetched = Append(@, FetchCall(prediction.id, target, now))]]
    /\ UNCHANGED <<rows, ing, met, upd, runs>>

\* lines 128-148: the awaited call has handed back its ActionState
JobFetchReturn(j) ==
    /\ jobs[j].pc = "fetch"
    /\ fx.pc = "done"
    /\ jobs' = [jobs EXCEPT ![j] = AfterPriceResult(jobs[j], fx.result)]
    /\ UNCHANGED <<rows, ing, fx, met, upd, runs>>

----------------------------------------------------------------------------
(* actions/db/accuracy-actions: getAccuracyMetricsAction *)

\* 24 * 60 * 60 * 1000 of lines 93-95
DAY_MS == 24 * 60 * 60 * 1000

\* Lines 83-90: utcNow, the reading of the clock rebuilt from its year, month,
\* day, hour, minute and second
utcNowOfMetrics(now) == now - (now % 1000)

\* Lines 93-95: new Date(utcNow.getTime() - days * 24 * 60 * 60 * 1000); the
\* days are taken off in two parts, each of which a 32-bit integer holds
DaysAgo(utcNow0, days) ==
    (utcNow0 - (days \div 2) * DAY_MS) - (days - (days \div 2)) * DAY_MS

twentyFourHoursAgo(utcNow0) == DaysAgo(utcNow0, 1)
sevenDaysAgo(utcNow0) == DaysAgo(utcNow0, 7)
thirtyDaysAgo(utcNow0) == DaysAgo(utcNow0, 30)

\* Lines 110-116: the ids of the rows the WHERE clause keeps, and(isNotNull(
\* accuracy), gte(column, startDate), lt(column, endDate)); column is
\* prediction_end_timestamp in accuracy-actions.ts
WhereInPeriod(tbl, column, startDate, endDate) ==
    { i \in 1..Len(tbl) : /\ ~IsNull(tbl[i].accuracy)
                          /\ tbl[i][column] >= startDate
                          /\ tbl[i][column] < endDate }

\* The accuracies of the rows S in hundredths, added up
RECURSIVE SumOfAccuracy(_, _)
SumOfAccuracy(tbl, S) ==
    IF S = {} THEN 0
    ELSE tbl[Highest(S)].accuracy.v + SumOfAccuracy(tbl, S \ {Highest(S)})

\* The text of a numeric value: the quotient sum / count in hundredths
NumericText(sum, count) == [t |-> "text", v |-> sum, count |-> count]

\* avg(predictionsTable.accuracy) over the rows S: SQL NULL when there is no
\* row, else the mean as numeric text
avg(tbl, S) ==
    IF S = {} THEN [t |-> "null", v |-> 0, count |-> 0]
    ELSE NumericText(SumOfAccuracy(tbl, S), Cardinality(S))

\* parseFloat(parseFloat(average).toFixed(2)) in hundredths: the Number
\* nearest to the text, then the nearest hundredth of that Number
RoundedAverage(average) ==
    toFixed2(RoundToDouble(Limbs(average.v), Limbs(100 * average.count), 0))

\* The test of lines 123 and 174 for an average that is a number, for which 0
\* is falsy
ParsedAverage_NumberZeroFalsy(average) ==
    IF ~IsNull(average) /\ average.v # 0 THEN Num(RoundedAverage(average)) ELSE NullV

\* Lines 119-126 and 173-176: average && !isNaN(parseFloat(average)) holds
\* for every numeric text, which is no empty string, "0.00..." included
ParsedAverage(average) ==
    IF ~IsNull(average) THEN Num(RoundedAverage(average)) ELSE NullV

\* Lines 98-127
fetchAverageAccuracy(tbl, column, startDate, endDate) ==
    ParsedAverage(avg(tbl, WhereInPeriod(tbl, column, startDate, endDate)))

\* Lines 130-144
kpiMetrics(tbl, column, utcNow0) ==
    [ daily |-> fetchAverageAccuracy(tbl, column, twentyFourHoursAgo(utcNow0), utcNow0),
      weekly |-> fetchAverageAccuracy(tbl, column, sevenDaysAgo(utcNow0), utcNow0),
      monthly |-> fetchAverageAccuracy(tbl, column, thirtyDaysAgo(utcNow0), utcNow0) ]

\* The day number of an instant: whole days since 1970-01-01T00:00:00Z
DayOf(t) == t \div DAY_MS

\* The calendar date <<year, month, day>> of a day number, for the days of
\* this model, which lie in December 1969 and January 1970
DateOfDay(d) == IF d < 0 THEN <<1969, 12, 32 + d>> ELSE <<1970, 1, 1 + d>>

\* Line 151: DATE_TRUNC('day', column)::text in a session whose time zone is
\* UTC, "1970-01-15 00:00:00+00", held as <<1970, 1, 15>>
day_bucket(t) == DateOfDay(DayOf(t))

\* The order of two such texts
TextLess(a, b) ==
    \/ a[1] < b[1]
    \/ a[1] = b[1] /\ a[2] < b[2]
    \/ a[1] = b[1] /\ a[2] = b[2] /\ a[3] < b[3]

\* An ORDER BY day_bucket DESC
RECURSIVE OrderByDay_Desc(_)
OrderByDay_Desc(D) ==
    IF D = {} THEN <<>>
    ELSE <<CHOOSE d \in D : \A e \in D : e = d \/ TextLess(e, d)>>
         \o OrderByDay_Desc(D \ {CHOOSE d \in D : \A e \in D : e = d \/ TextLess(e, d)})

\* Line 165: ORDER BY day_bucket ASC
RECURSIVE OrderByDay(_)
OrderByDay(D) ==
    IF D = {} THEN <<>>
    ELSE <<CHOOSE d \in D : \A e \in D : e = d \/ TextLess(d, e)>>
         \o OrderByDay(D \ {CHOOSE d \in D : \A e \in D : e = d \/ TextLess(d, e)})

\* Lines 148-166: one row per day_bucket of the rows S, with the avg of the
\* accuracies of the bucket, in the order of the buckets
GroupByDay(tbl, column, S, days) ==
    [ k \in 1..Len(days) |->
        [ day |-> days[k],
          averageAccuracy |-> avg(tbl, { i \in S : day_bucket(tbl[i][column]) = days[k] }) ] ]

dailyTrendResult(tbl, column, utcNow0) ==
    GroupByDay(tbl, column, WhereInPeriod(tbl, column, thirtyDaysAgo(utcNow0), utcNow0),
               OrderByDay({ day_bucket(tbl[i][column]) :
                            i \in WhereInPeriod(tbl, column, thirtyDaysAgo(utcNow0), utcNow0) }))

\* new Date(row.day): the day number of a day_bucket text
DayNumber(day) == IF day[1] = 1969 THEN day[3] - 32 ELSE day[3] - 1

\* Lines 182-186: toLocaleDateString("en-US", { month: "short", day: "numeric",
\* timeZone }) of the midnight of a day, "Jan 15" held as <<1, 15>>; zone is
\* what the time zone is ahead of UTC in hours, from -12 to 0, and behind UTC
\* the midnight of a UTC day lies in the day before
MonthAndDay(date) == <<date[2], date[3]>>
DateLabel(day, zone) ==
    MonthAndDay(DateOfDay(IF zone < 0 THEN DayNumber(day) - 1 ELSE DayNumber(day)))

\* Lines 171-190 for one row of dailyTrendResult
TrendPoint(row, zone) == [x |-> DateLabel(row.day, zone), y |-> ParsedAverage(row.averageAccuracy)]

\* Lines 170-192: map and filter
trendDataPoints(result, zone) ==
    SelectSeq([k \in 1..Len(result) |-> TrendPoint(result[k], zone)], LAMBDA point : ~IsNull(point.y))

\* What the action hands back
MetricsData(kpi, trend) == [kpiMetrics |-> kpi, trendData |-> trend]

MetIdle ==
    [ pc |-> "idle", file |-> "", now |-> 0, isSuccess |-> FALSE,
      data |-> MetricsData([daily |-> NullV, weekly |-> NullV, monthly |-> NullV], <<>>) ]

\* Lines 208-215 and 216-222: the returned ActionState
MetDone(file, now, isSuccess, data) ==
    [ pc |-> "done", file |-> file, now |-> now, isSuccess |-> isSuccess, data |-> data ]

\* Readings of the clock of a call: noon of 1970-01-16, on the second and
\* within it
MetricsNow == 15 * DAY_MS + 12 * 60 * 60 * 1000
MetricsClock == { MetricsNow, MetricsNow + SubSecondMs }

\* The time zones of the server process in hours ahead of UTC: UTC and
\* America/New_York in winter
ServerZones == { 0, -5 }

\* accuracy-actions.ts lines 76-223: the whole call; dbOk is whether the
\* queries succeed, and a failed one is caught on lines 216-222
getAccuracyMetricsAction ==
    /\ met.pc = "idle"
    /\ \E now \in MetricsClock, dbOk \in BOOLEAN :
          met' = IF dbOk
                 THEN MetDone("src/actions/db/accuracy-actions.ts", now, TRUE,
                          MetricsData(
                              kpiMetrics(rows, "prediction_end_timestamp", utcNowOfMetrics(now)),
                              trendDataPoints(dailyTrendResult(rows, "prediction_end_timestamp",
                                                               utcNowOfMetrics(now)), 0)))
                 ELSE MetDone("src/actions/db/accuracy-actions.ts", now, FALSE, MetIdle.data)
    /\ UNCHANGED <<rows, jobs, ing, fx, upd, runs>>

\* The getAccuracyMetricsAction of the second accuracy-actions file of the
\* repository (part_004 lines 78-193): the periods end at the reading of the
\* clock itself, the rows are taken by created_at, and the label of a day is
\* its date in the time zone of the server
getAccuracyMetricsActionPart004 ==
    /\ met.pc = "idle"
    /\ \E now \in MetricsClock, dbOk \in BOOLEAN, zone \in ServerZones :
          met' = IF dbOk
                 THEN MetDone("part_004", now, TRUE,
                          MetricsData(
                              kpiMetrics(rows, "created_at", now),
                              trendDataPoints(dailyTrendResult(rows, "created_at", now), zone)))
                 ELSE MetDone("part_004", now, FALSE, MetIdle.data)
    /\ UNCHANGED <<rows, jobs, ing, fx, upd, runs>>

\* getAccuracyMetricsAction await by await. Lines 77-96: the call reads the
\* clock and fixes its periods; the four queries are still to come.
MetricsStart ==
    /\ met.pc = "idle"
    /\ \E now \in MetricsClock :
          met' = [MetIdle EXCEPT !.pc = "daily", !.now = now,
                                 !.file = "src/actions/db/accuracy-actions.ts"]
    /\ UNCHANGED <<rows, jobs, ing, fx, upd, runs>>

\* Lines 130, 131, 132 and 148-166: the awaited query answers from the
\* table as it is when it runs; after the last one lines 170-215 return.
MetricsQuery ==
    /\ met.pc \in {"daily", "weekly", "monthly", "trend"}
    /\ LET utcNow0 == utcNowOfMetrics(met.now)
           column == "prediction_end_timestamp"
       IN  met' =
             IF met.pc = "daily"
             THEN [met EXCEPT !.pc = "weekly",
                      !.data.kpiMetrics.daily =
                          fetchAverageAccuracy(rows, column, twentyFourHoursAgo(utcNow0), utcNow0)]
             ELSE IF met.pc = "weekly"
             THEN [met EXCEPT !.pc = "monthly",
                      !.data.kpiMetrics.weekly =
                          fetchAverageAccuracy(rows, column, sevenDaysAgo(utcNow0), utcNow0)]
             ELSE IF met.pc = "monthly"
             THEN [met EXCEPT !.pc = "trend",
                      !.data.kpiMetrics.monthly =
                          fetchAverageAccuracy(rows, column, thirtyDaysAgo(utcNow0), utcNow0)]
             ELSE [met EXCEPT !.pc = "done", !.isSuccess = TRUE,
                      !.data.trendData =
                          trendDataPoints(dailyTrendResult(rows, column, utcNow0), 0)]
    /\ UNCHANGED <<rows, jobs, ing, fx, upd, runs>>

\* update-accuracy/route.ts lines 151-157: a scoring invocation that found an
\* unscored row mature has its update taken while the metrics are computed
ScoringUpdate ==
    /\ updatePredictionWithAccuracyAction
    /\ upd'.isSuccess
    /\ \E i \in 1..Len(rows) : rows[i].id = upd'.id /\ IsNull(rows[i].accuracy)

----------------------------------------------------------------------------
(* Specifications *)

Init ==
    /\ rows = <<>>
    /\ jobs = [j \in JobIds |-> JobIdle]
    /\ ing = IngIdle
    /\ fx = FxIdle
    /\ met = MetIdle
    /\ upd = UpdIdle
    /\ runs = [i \in RunIds |-> RunIdle]

\* The scoring job, one invocation at a time, over what ingestion stores
Next ==
    \/ IngestStartOk
    \/ IngestTopicOk
    \/ IngestReturn
    \/ JobStart(1)
    \/ JobFetchPrice(1)
    \/ JobUpdate(1)
    \/ JobReturn(1)
    \/ JobKill(1)

Spec == Init /\ [][Next]_vars

\* Ingestion alone, one run at a time, with every failure it handles
NextIngest ==
    \/ IngestStart
    \/ IngestTopic
    \/ IngestReturn

SpecIngest == Init /\ [][NextIngest]_vars

\* Ingestion under every configuration, with the forecast network and the
\* database answering
NextConfig ==
    \/ IngestStartAnyConfig
    \/ IngestTopicOk
    \/ IngestReturn

SpecConfig == Init /\ [][NextConfig]_vars

\* The table after one more pass of the ingestion loop in which the forecast
\* network and the database answer
Ingested(tbl, config, inference, now) ==
    ProcessTopic(tbl, config, inference, now, TRUE, TRUE).tbl

\* Two overlapping invocations of the scoring job, over the table that one
\* run of ingestion at the epoch leaves behind
InitRace ==
    /\ rows = Ingested(Ingested(<<>>, topicsToFetch[1], DecimalInference, 0),
                        topicsToFetch[2], DecimalInference, 0)
    /\ jobs = [j \in JobIds |-> JobIdle]
    /\ ing = IngIdle
    /\ fx = FxIdle
    /\ met = MetIdle
    /\ upd = UpdIdle
    /\ runs = [i \in RunIds |-> RunIdle]

NextRace ==
    \/ \E j \in JobIds : JobStart(j)
    \/ \E j \in JobIds : JobFetchPrice(j)
    \/ \E j \in JobIds : JobUpdate(j)
    \/ \E j \in JobIds : JobReturn(j)
    \/ \E j \in JobIds : JobKill(j)

SpecRace == InitRace /\ [][NextRace]_vars

\* One invocation of the scoring job at a time, over a table of two 5-minute
\* predictions made in two different seconds, one of them with a value that
\* parseFloat cannot read
InitScore ==
    /\ rows \in
          { Ingested(Ingested(<<>>, topicsToFetch[1], DecimalInference, 0),
                     topicsToFetch[1], GarbageInference, MS_PER_SECOND),
            Ingested(Ingested(<<>>, topicsToFetch[1], GarbageInference, 0),
                     topicsToFetch[1], DecimalInference, MS_PER_SECOND) }
    /\ jobs = [j \in JobIds |-> JobIdle]
    /\ ing = IngIdle
    /\ fx = FxIdle
    /\ met = MetIdle
    /\ upd = UpdIdle
    /\ runs = [i \in RunIds |-> RunIdle]

NextScore ==
    \/ JobStart(1)
    \/ JobFetchPrice(1)
    \/ JobUpdate(1)
    \/ JobReturn(1)

SpecScore == InitScore /\ [][NextScore]_vars

\* The same, with every request of the ground-truth fetcher a step of its own
NextScoreFetch ==
    \/ JobStart(1)
    \/ JobFetchCall(1)
    \/ FxAttempt
    \/ JobFetchReturn(1)
    \/ JobUpdate(1)
    \/ JobReturn(1)

SpecScoreFetch == InitScore /\ [][NextScoreFetch]_vars

\* The ground-truth fetcher alone
NextFetch ==
    \/ FxCall
    \/ FxAttempt

SpecFetch == Init /\ [][NextFetch]_vars

\* Both bearer-token triggers under every request, over a table that holds
\* rows to score, with the upstream services and the database answering
NextAuth ==
    \/ IngestStartIn(Requests, {TRUE}, {"mainnet"}, {TRUE})
    \/ IngestTopicOk
    \/ IngestReturn
    \/ JobStartIn(1, Requests)
    \/ JobFetchPrice(1)
    \/ JobUpdate(1)
    \/ JobReturn(1)

SpecAuth == InitScore /\ [][NextAuth]_vars

\* The scoring job over a table of one row that ingestion stored for a
\* predicted value of MathValues, with any price of MathValues handed back
InitMath ==
    /\ rows \in { Ingested(<<>>, topicsToFetch[1],
                           [kind |-> "data",
                            network_inference |-> RawValue("decimal", 10 * predicted),
                            confidence_interval_values |-> <<>>], 0) :
                  predicted \in MathValues }
    /\ jobs = [j \in JobIds |-> JobIdle]
    /\ ing = IngIdle
    /\ fx = FxIdle
    /\ met = MetIdle
    /\ upd = UpdIdle
    /\ runs = [i \in RunIds |-> RunIdle]

NextMath ==
    \/ JobStart(1)
    \/ JobScore(1)
    \/ JobUpdate(1)
    \/ JobReturn(1)

SpecMath == InitMath /\ [][NextMath]_vars

\* The instants at which the predictions of the metrics table end, by their
\* distance from MetricsNow: at it and a second before it, and at and a second
\* before the start of each of the three periods
MetricsEnds ==
    { MetricsNow - back : back \in {0, 1000} }
        \cup { DaysAgo(MetricsNow, days) - back : days \in {1, 7, 30}, back \in {0, 1000} }

\* Scores of the metrics table: none yet, 0.00, 33.33 and 100.00
MetricsAccuracies == { NullV, Num(0), Num(3333), Num(10000) }

\* tbl after an ingestion pass for config that makes a prediction ending at
\* end, and after the scoring job has given it the score acc
WithPrediction(tbl, config, end, acc) ==
    IF IsNull(acc) \/ existingPrediction(tbl, config.type, end)
    THEN Ingested(tbl, config, DecimalInference, end - config.durationMs)
    ELSE UpdateWhereId(Ingested(tbl, config, DecimalInference, end - config.durationMs),
                       Len(tbl) + 1, [actual_price |-> Num(10000), accuracy |-> acc],
                       end + MS_PER_SECOND)

\* The metrics action, in both files, over tables of up to two predictions
InitMetrics ==
    /\ rows \in {<<>>}
          \cup { WithPrediction(<<>>, topicsToFetch[c], end, acc) :
                 c \in {1, 2}, end \in MetricsEnds, acc \in MetricsAccuracies }
          \cup { WithPrediction(WithPrediction(<<>>, topicsToFetch[c1], end1, acc1),
                                topicsToFetch[c2], end2, acc2) :
                 c1 \in {1, 2}, c2 \in {1, 2}, end1 \in MetricsEnds, end2 \in MetricsEnds,
                 acc1 \in MetricsAccuracies, acc2 \in MetricsAccuracies }
    /\ jobs = [j \in JobIds |-> JobIdle]
    /\ ing = IngIdle
    /\ fx = FxIdle
    /\ met = MetIdle
    /\ upd = UpdIdle
    /\ runs = [i \in RunIds |-> RunIdle]

NextMetrics ==
    \/ getAccuracyMetricsAction
    \/ getAccuracyMetricsActionPart004

SpecMetrics == InitMetrics /\ [][NextMetrics]_vars

\* updatePredictionWithAccuracyAction called again and again, for the id of a
\* row and for an id that no row has, over a table of two unscored rows
NextUpdate ==
    \/ updatePredictionWithAccuracyAction

SpecUpdate == InitScore /\ [][NextUpdate]_vars

\* Two invocations of ingestion that overlap, over an empty table
NextOverlap ==
    \/ \E i \in RunIds : RunStart(i)
    \/ \E i \in RunIds : RunFindFirst(i)
    \/ \E i \in RunIds : RunCreatePrediction(i)
    \/ \E i \in RunIds : RunReturn(i)

SpecOverlap == Init /\ [][NextOverlap]_vars

\* The scoring job when the database and the ground-truth source answer:
\* the lookup succeeds, the fetcher hands back a price, the update is taken
JobStartOk == JobStart(1) /\ jobs'[1].lookupIsSuccess
JobFetchPriceOk ==
    /\ JobFetchPrice(1)
    /\ \/ jobs'[1].pc = "update" /\ IsNum(jobs'[1].actualPrice)
       \/ /\ jobs'[1].failedCount > jobs[1].failedCount
          /\ jobs'[1].processingErrors[Len(jobs'[1].processingErrors)].error =
                "Invalid predicted_value format"
JobUpdateOk == JobUpdate(1) /\ jobs'[1].updatedCount > jobs[1].updatedCount

\* A lookup made when the prediction_end_timestamp of every row has passed
JobStartAfterMaturity ==
    /\ JobStartOk
    /\ \A i \in 1..Len(rows) : rows[i].prediction_end_timestamp < jobs'[1].lookupNow

\* Invocation after invocation of the scoring job with the database and the
\* ground-truth source answering, over a table of two 5-minute predictions,
\* one of them with a value that parseFloat cannot read
NextLive ==
    \/ JobStartOk
    \/ JobFetchPriceOk
    \/ JobUpdateOk
    \/ JobReturn(1)

\* The schedule fires again and again while time goes on, so that again and
\* again a lookup reads a clock past every maturity; an invocation that is
\* not killed goes on to its next await and to its return.
SpecLive ==
    /\ InitScore
    /\ [][NextLive]_vars
    /\ SF_vars(JobStartAfterMaturity)
    /\ WF_vars(JobFetchPriceOk)
    /\ WF_vars(JobUpdateOk)
    /\ WF_vars(JobReturn(1))

\* The metrics action await by await while the scoring job updates rows,
\* over tables of up to two predictions that have ended, the second unscored
InitMetricsSteps ==
    /\ rows \in { WithPrediction(WithPrediction(<<>>, topicsToFetch[1], end1, acc1),
                                 topicsToFetch[1], end2, NullV) :
                  end1 \in MetricsEnds, end2 \in MetricsEnds,
                  acc1 \in {NullV, Num(3333)} }
    /\ jobs = [j \in JobIds |-> JobIdle]
    /\ ing = IngIdle
    /\ fx = FxIdle
    /\ met = MetIdle
    /\ upd = UpdIdle
    /\ runs = [i \in RunIds |-> RunIdle]

NextMetricsSteps ==
    \/ MetricsStart
    \/ MetricsQuery
    \/ ScoringUpdate

SpecMetricsSteps == InitMetricsSteps /\ [][NextMetricsSteps]_vars

----------------------------------------------------------------------------
(* Properties *)

Scored(r) == ~IsNull(r.actual_price) /\ ~IsNull(r.accuracy)
Unscored(r) == IsNull(r.actual_price) /\ IsNull(r.accuracy)
RowIds == 1..Len(rows)

\* C1: in every reachable state, whatever ingestion and scoring have done
\* and wherever a scoring invocation was killed, a row's actual_price is
\* null exactly when its accuracy is null.
C1_ActualAndAccuracyTogether ==
    \A i \in RowIds : IsNull(rows[i].actual_price) <=> IsNull(rows[i].accuracy)

\* An invocation was killed in the middle of its batch: one row is scored,
\* the next one is not, and no locals are left.
C1_Witness ==
    /\ Len(rows) = MaxRows
    /\ jobs[1].pc = "idle"
    /\ \E i, k \in RowIds :
          /\ Scored(rows[i])
          /\ Unscored(rows[k])
          /\ rows[k].prediction_type = "5-min"

\* C2: once a row is scored, its actual_price and accuracy never change,
\* whatever the interleaving of scoring invocations, two invocations that
\* both read the row before either writes and obtain different prices
\* included.
C2_ScoreWrittenOnce ==
    [][\A i \in RowIds :
          Scored(rows[i]) =>
              /\ rows'[i].actual_price = rows[i].actual_price
              /\ rows'[i].accuracy = rows[i].accuracy]_vars

\* C3: after any sequence of ingestion runs that do not overlap, whatever
\* the clock reads in each, no two rows have the same prediction_type and
\* the same prediction_end_timestamp.
C3_NoDuplicateTypeAndEnd ==
    \A i, k \in RowIds :
        i # k =>
            ~ /\ rows[i].prediction_type = rows[k].prediction_type
              /\ rows[i].prediction_end_timestamp = rows[k].prediction_end_timestamp

\* A run has succeeded for both horizons although the 8-hour row is older
\* than the 5-minute row: the 8-hour prediction of this run was found in the
\* table and not inserted again.
C3_Witness ==
    /\ ing.pc = "done"
    /\ ing.isSuccess
    /\ Len(rows) = 2
    /\ rows[1].prediction_type = "8-hour"
    /\ rows[2].prediction_type = "5-min"

\* C4: during a scoring run the ground-truth fetcher is never called for a
\* row whose prediction_end_timestamp is later than the current time, even
\* when the clock then reads earlier than it did in the lookup.
C4_NoFetchOfFutureRow ==
    \A j \in JobIds :
        \A k \in 1..Len(jobs[j].fetched) :
            jobs[j].fetched[k].targetTimestampMs <= jobs[j].fetched[k].now

\* A step in which invocation j makes its lookup and the lookup answers
LookupStep(j) ==
    /\ jobs[j].pc \in {"idle", "done"}
    /\ jobs'[j] # jobs[j]
    /\ ~(jobs'[j].pc = "done" /\ jobs'[j].status = 500)

Range(s) == { s[k] : k \in 1..Len(s) }

\* C5 (as stated): the lookup made at `now` returns exactly the rows with
\* prediction_end_timestamp <= now and accuracy null, a row that ends at
\* `now` included.
C5_LookupAtOrBeforeNow ==
    [][\A j \in JobIds :
          LookupStep(j) =>
              LET mature == { r \in Range(rows) :
                                /\ r.prediction_end_timestamp <= jobs'[j].lookupNow
                                /\ IsNull(r.accuracy) }
              IN  /\ Range(jobs'[j].batch) = mature
                  /\ Len(jobs'[j].batch) = Cardinality(mature)]_vars

\* C5 (amended): the lookup made at `now` returns exactly the rows with
\* prediction_end_timestamp < now and accuracy null, each once; a row that
\* ends at `now`, a row that ends later and a scored row are not returned.
C5_LookupBeforeNow ==
    [][\A j \in JobIds :
          LookupStep(j) =>
              LET mature == { r \in Range(rows) :
                                /\ r.prediction_end_timestamp < jobs'[j].lookupNow
                                /\ IsNull(r.accuracy) }
              IN  /\ Range(jobs'[j].batch) = mature
                  /\ Len(jobs'[j].batch) = Cardinality(mature)]_vars

\* The lookup has just returned a batch: an unscored row that ended before
\* the instant of the lookup is in it, and an unscored row that ends exactly
\* at that instant is in the table and not in the batch.
C5_Witness ==
    /\ jobs[1].pc = "loop"
    /\ jobs[1].idx = 1
    /\ jobs[1].fetched = <<>>
    /\ \E i \in RowIds :
          /\ rows[i].prediction_end_timestamp = jobs[1].lookupNow
          /\ Unscored(rows[i])
          /\ rows[i] \notin Range(jobs[1].batch)
    /\ \E i \in RowIds :
          /\ rows[i].prediction_end_timestamp < jobs[1].lookupNow
          /\ Unscored(rows[i])
          /\ rows[i] \in Range(jobs[1].batch)

\* A step in which invocation j calls the ground-truth fetcher
FetchStep(j) == Len(jobs'[j].fetched) > Len(jobs[j].fetched)

\* A step in which the update of invocation j succeeds
UpdatedStep(j) == jobs'[j].updatedCount > jobs[j].updatedCount

\* C6: a row that a scoring run updates successfully has actual_price and
\* accuracy set afterwards, stays scored, is not returned by any later
\* lookup, and no later run calls the ground-truth fetcher for it.
C6_ScoredRowNeverProcessedAgain ==
    [][/\ \A j \in JobIds :
            UpdatedStep(j) => Scored(rows'[jobs[j].batch[jobs[j].idx].id])
       /\ \A i \in RowIds :
            Scored(rows[i]) =>
                /\ Scored(rows'[i])
                /\ \A j \in JobIds :
                      /\ LookupStep(j) =>
                            \A k \in 1..Len(jobs'[j].batch) : jobs'[j].batch[k].id # i
                      /\ FetchStep(j) =>
                            jobs'[j].fetched[Len(jobs'[j].fetched)].predictionId # i]_vars

\* A later run has just made its lookup: a row that an earlier run scored
\* ended before the instant of the lookup and is not in the batch.
C6_Witness ==
    /\ jobs[1].pc = "loop"
    /\ jobs[1].idx = 1
    /\ jobs[1].fetched = <<>>
    /\ \E i \in RowIds :
          /\ Scored(rows[i])
          /\ rows[i].prediction_end_timestamp < jobs[1].lookupNow
          /\ \A k \in 1..Len(jobs[1].batch) : jobs[1].batch[k].id # i

\* C7: in a scoring run that is not killed every row of the batch is
\* processed exactly once, however the rows before it ended (no price, a
\* predicted_value that cannot be parsed, a failed update, an exception):
\* while the run is in its loop the two counters add up to the number of
\* rows already passed, and when it ends they add up to the size of the
\* batch, with one diagnostic, for a row of the batch, per failed row.
C7_EveryRowCountedOnce ==
    \A j \in JobIds :
        LET job == jobs[j]
            errors == job.processingErrors
        IN  /\ Len(errors) = job.failedCount
            /\ \A a, b \in 1..Len(errors) :
                  a < b => errors[a].predictionId # errors[b].predictionId
            /\ \A a \in 1..Len(errors) :
                  \E k \in 1..Len(job.batch) : job.batch[k].id = errors[a].predictionId
            /\ job.pc \in {"loop", "update"} =>
                  job.updatedCount + job.failedCount = job.idx - 1
            /\ job.pc = "done" =>
                  job.updatedCount + job.failedCount = Len(job.batch)

\* A run over two rows has ended: the first row failed because its
\* predicted_value cannot be parsed, and the second was still updated.
C7_Witness ==
    /\ jobs[1].pc = "done"
    /\ Len(jobs[1].batch) = 2
    /\ jobs[1].failedCount = 1
    /\ jobs[1].updatedCount = 1
    /\ jobs[1].processingErrors[1] =
          ProcessingError(jobs[1].batch[1].id, "Invalid predicted_value format")
    /\ Scored(rows[jobs[1].batch[2].id])

\* The historical response is a client error other than a rate limit
ClientError(h) == ~h.neterr /\ h.status \in 400..499 /\ h.status # 429

\* The historical response is a success whose list of points is empty
EmptyPrices(h) == ~h.neterr /\ ResponseOk(h) /\ h.json /\ h.hasPrices /\ h.prices = <<>>

\* C8: when the historical-range query of a call ends with a client error
\* that is no rate limit, or with an empty list of points, the fetcher asks
\* the current-price endpoint and hands back what that endpoint gives: its
\* price whenever it gives one.
C8_FallbackOnClientErrorOrEmpty ==
    (/\ fx.pc = "done"
     /\ fx.log[1] = "hist"
     /\ ClientError(fx.h) \/ EmptyPrices(fx.h))
        => /\ fx.log[Len(fx.log)] = "cur"
           /\ ~getCurrentBtcPrice(fx.c).thrown =>
                 /\ fx.result.isSuccess
                 /\ fx.result.price = getCurrentBtcPrice(fx.c).value

Retryable(reply) == reply.neterr \/ reply.status = 429

\* C10: a call through fetchWithRetry makes at most 1 + MAX_RETRIES
\* attempts and ends (each attempt uses up one of the retries left); another
\* attempt is made only after a 429 response or a network failure, and any
\* other response is handed back after the attempt that received it.
C10_BoundedRetries ==
    /\ fx.attempts <= MAX_RETRIES + 1
    /\ fx.retries \in 0..MAX_RETRIES
    /\ fx.pc = "attempt" =>
          /\ fx.attempts + fx.retries = MAX_RETRIES
          /\ fx.attempts > 0 => Retryable(fx.last)
    /\ fx.pc = "done" =>
          /\ fx.attempts = MAX_RETRIES - fx.retries + 1
          /\ Retryable(fx.last) => fx.retries = 0

\* Every attempt of a call was answered with 429: the call has ended after
\* 1 + MAX_RETRIES attempts with that response.
C10_Witness ==
    /\ fx.pc = "done"
    /\ fx.attempts = MAX_RETRIES + 1
    /\ fx.last = ErrStatus(429)
    /\ fx.log = <<"hist", "hist", "hist", "hist">>

\* The last call through fetchWithRetry ended with its retries used up:
\* every one of its 1 + MAX_RETRIES attempts got a 429 or a network failure
Exhausted ==
    /\ fx.pc = "done"
    /\ fx.attempts = MAX_RETRIES + 1
    /\ Retryable(fx.last)

\* C11: when every attempt of an upstream call is rate-limited or fails at
\* the network level until no retry is left, the fetcher hands back a
\* failure, never a success with a price; the scoring job counts it as the
\* failure of that row alone: the table is not written, the row stays
\* unscored, and the loop goes on with the next row of the batch.
C11_ExhaustedRetriesFailOneRow ==
    [][/\ Exhausted => ~fx.result.isSuccess
       /\ \A j \in JobIds :
            (Exhausted /\ jobs[j].pc = "fetch" /\ jobs'[j] # jobs[j]) =>
                /\ jobs'[j] = RowFailed(jobs[j], "Failed to fetch price")
                /\ jobs'[j].pc = "loop"
                /\ jobs'[j].idx = jobs[j].idx + 1
                /\ rows' = rows
                /\ Unscored(rows'[jobs[j].batch[jobs[j].idx].id])]_vars

\* The first row of a batch of two has failed because every attempt of its
\* upstream call was refused; the row is unscored and the run is at the
\* second row.
C11_Witness ==
    /\ Exhausted
    /\ jobs[1].pc = "loop"
    /\ Len(jobs[1].batch) = 2
    /\ jobs[1].idx = 2
    /\ jobs[1].failedCount = 1
    /\ fx.target = jobs[1].batch[1].prediction_end_timestamp
    /\ Unscored(rows[jobs[1].batch[1].id])

\* The historical response carries a list of points that is not empty
HasPrices(h) == ~h.neterr /\ ResponseOk(h) /\ h.json /\ h.hasPrices /\ Len(h.prices) > 0

\* |timestamp - target| of the k-th point of the historical response
Distance(k) == Abs(fx.h.prices[k].ts - fx.target)

\* C12: for a list of historical points that is not empty the fetcher hands
\* back the price of a point whose timestamp is at the smallest absolute
\* distance from the target, and of the first such point in the list when
\* several are at that distance.
C12_NearestPointFirstOnTie ==
    (fx.pc = "done" /\ fx.log[1] = "hist" /\ HasPrices(fx.h)) =>
        /\ fx.result.isSuccess
        /\ \E k \in 1..Len(fx.h.prices) :
              /\ \A m \in 1..Len(fx.h.prices) : Distance(k) <= Distance(m)
              /\ \A m \in 1..(k - 1) : Distance(m) > Distance(k)
              /\ fx.result.price = Num(fx.h.prices[k].price)

\* A call has ended on a list in which two points with different prices are
\* both at the smallest distance, neither of them the first of the list, and
\* the price handed back is that of the earlier one.
C12_Witness ==
    /\ fx.pc = "done"
    /\ fx.log[1] = "hist"
    /\ HasPrices(fx.h)
    /\ \E k, m \in 2..Len(fx.h.prices) :
          /\ k < m
          /\ Distance(k) = Distance(m)
          /\ \A n \in 1..Len(fx.h.prices) : Distance(k) <= Distance(n)
          /\ fx.h.prices[k].price # fx.h.prices[m].price
          /\ fx.result.price = Num(fx.h.prices[k].price)

\* Which of the three failure conditions the final historical response is:
\* the upstream is unavailable or rate-limited after the retries, the list
\* of points is empty, or the body is malformed (not JSON, or without a list)
FailureCondition(h) ==
    IF Retryable(h) THEN "unavailable"
    ELSE IF EmptyPrices(h) THEN "no data"
    ELSE IF ResponseOk(h) /\ (~h.json \/ ~h.hasPrices) THEN "malformed"
    ELSE "none"

\* C13: the failure handed back under one of the three failure conditions
\* differs from every failure handed back under either of the other two, a
\* body without a list of prices counting as malformed.
C13_FailuresDistinguishable ==
    (fx.pc = "done" /\ fx.log[1] = "hist" /\ FailureCondition(fx.h) # "none") =>
        /\ ~fx.result.isSuccess
        /\ \A other \in HistReplies(fx.target) :
              FailureCondition(other) \notin {"none", FailureCondition(fx.h)} =>
                  HistoricalResult(other, fx.target) # fx.result

\* The rows the current run of ingestion has inserted
CreatedByRun == {ing.passes[k].created : k \in 1..Len(ing.passes)} \ {0}

\* The horizon duration of a row, from its prediction_type
DurationOf(row) ==
    LET config == CHOOSE c \in Range(topicsToFetch) : c.type = row.prediction_type
    IN  config.durationMs

\* C14: the rows that one run of ingestion created all have the same
\* created_at, and their maturity minus their horizon duration is one and the
\* same instant, whatever the wall clock does between the horizons.
C14_SingleNowPerRun ==
    \A a \in CreatedByRun, b \in CreatedByRun :
        /\ rows[a].created_at = rows[b].created_at
        /\ rows[a].prediction_end_timestamp - DurationOf(rows[a])
               = rows[b].prediction_end_timestamp - DurationOf(rows[b])

\* A run that found the table empty, inserted in its first pass and succeeded
\* in its second: both fetches and both inserts succeeded
RunFromEmptyAllOk ==
    /\ ing.pc = "done"
    /\ Len(ing.passes) = Len(topicsToFetch)
    /\ ing.passes[1].created = 1
    /\ \A k \in 1..Len(ing.results) : ing.results[k].success

\* The instant `now` with its milliseconds dropped
WholeSecond(now) == now - (now % MS_PER_SECOND)

\* C15 as stated: such a run adds exactly two rows, both unscored, with
\* distinct (type, end) pairs, and each row matures at the clock reading of
\* its pass plus its horizon duration.
C15_TwoRowsAtNowPlusDuration ==
    RunFromEmptyAllOk =>
        /\ Len(rows) = 2
        /\ \A k \in 1..2 :
              /\ ing.passes[k].created = k
              /\ Unscored(rows[k])
              /\ rows[k].prediction_type = topicsToFetch[k].type
              /\ rows[k].prediction_end_timestamp
                     = ing.passes[k].now + topicsToFetch[k].durationMs
        /\ <<rows[1].prediction_type, rows[1].prediction_end_timestamp>>
               # <<rows[2].prediction_type, rows[2].prediction_end_timestamp>>

\* C15 (amended): such a run adds exactly two rows, both unscored, with
\* distinct (type, end) pairs, and each row matures at the clock reading of
\* its pass, cut down to the whole second, plus its horizon duration.
C15_TwoRowsAtWholeSecondPlusDuration ==
    RunFromEmptyAllOk =>
        /\ Len(rows) = 2
        /\ \A k \in 1..2 :
              /\ ing.passes[k].created = k
              /\ Unscored(rows[k])
              /\ rows[k].prediction_type = topicsToFetch[k].type
              /\ rows[k].prediction_end_timestamp
                     = WholeSecond(ing.passes[k].now) + topicsToFetch[k].durationMs
        /\ <<rows[1].prediction_type, rows[1].prediction_end_timestamp>>
               # <<rows[2].prediction_type, rows[2].prediction_end_timestamp>>

\* A run from the empty table has ended, and the clock read a fraction of a
\* second in one of its passes
C15_Witness ==
    /\ RunFromEmptyAllOk
    /\ \E k \in 1..2 : ing.passes[k].now % MS_PER_SECOND # 0

\* The run has ended with every horizon persisted or found present
FullySuccessfulRun ==
    /\ ing.pc = "done"
    /\ Len(ing.passes) = Len(topicsToFetch)
    /\ \A k \in 1..Len(ing.results) : ing.results[k].success

\* The clock readings the passes of the ended run can have had: the logged
\* one where the pass inserted, and where it found its row present any reading
\* for which that row is in the table
SameNowReadings ==
    { nows \in [1..Len(topicsToFetch) -> ClockValues] :
        \A k \in 1..Len(topicsToFetch) :
            IF ing.passes[k].created # 0
            THEN nows[k] = ing.passes[k].now
            ELSE existingPrediction(rows, topicsToFetch[k].type,
                                    utcNow(nows[k]) + topicsToFetch[k].durationMs) }

\* lines 132-270 over both topics, with the forecast network and the database
\* answering: the table and the ActionState after a run that reads nows[k] in
\* pass k
RunAgain(tbl, nows, inference) ==
    LET first  == ProcessTopic(tbl, topicsToFetch[1], inference, nows[1], TRUE, TRUE)
        second == ProcessTopic(first.tbl, topicsToFetch[2], inference, nows[2], TRUE, TRUE)
    IN  [tbl |-> second.tbl,
         outcome |-> IngestOutcome(<<first.result, second.result>>)]

\* C16: after a fully successful run, a second run that reads the same clock
\* values adds no row, leaves every row as it is, and reports success.
C16_SecondRunSameNowIsNoOp ==
    FullySuccessfulRun =>
        \A nows \in SameNowReadings, inference \in {DecimalInference, GarbageInference} :
            /\ RunAgain(rows, nows, inference).tbl = rows
            /\ RunAgain(rows, nows, inference).outcome.isSuccess

\* A run has ended in which every horizon was found present: a run repeated
\* within the seconds of an earlier one
C16_Witness ==
    /\ FullySuccessfulRun
    /\ Len(rows) = 2
    /\ \A k \in 1..Len(ing.passes) : ing.passes[k].created = 0

\* Every configured horizon was processed, and each either inserted its row or
\* found it present
EveryHorizonOk ==
    /\ Len(ing.results) = Len(topicsToFetch)
    /\ \A k \in 1..Len(ing.results) : ing.results[k].success

\* The horizons of the ended run whose fetch or store step failed
FailedHorizons == {k \in 1..Len(ing.results) : ~ing.results[k].success}

\* C17: a run of ingestion reports success exactly when every configured
\* horizon inserted its row or found it present; a horizon that inserted a row
\* is never a failed one; and when a horizon failed, the message of the
\* returned failure holds the message of every failed horizon, and no other.
C17_SuccessIffEveryHorizonOk ==
    ing.pc = "done" =>
        /\ ing.isSuccess <=> EveryHorizonOk
        /\ \A k \in 1..Len(ing.passes) : ing.passes[k].created # 0 => ing.results[k].success
        /\ FailedHorizons # {} =>
              /\ ~ing.isSuccess
              /\ \A k \in FailedHorizons : ing.results[k].message \in Range(Tail(ing.message))
              /\ Len(Tail(ing.message)) = Cardinality(FailedHorizons)

\* A run has ended in which both horizons failed, each for its own reason
C17_Witness ==
    /\ ing.pc = "done"
    /\ FailedHorizons = 1..Len(topicsToFetch)
    /\ ing.results[1].message # ing.results[2].message

\* C18: when a horizon of a run failed, the run still made a pass for every
\* configured horizon, and every horizon that did not fail has its row in the
\* table: the one its pass inserted, or one of its type that was there before.
C18_FailureDoesNotStopOtherHorizon ==
    (ing.pc = "done" /\ FailedHorizons # {}) =>
        /\ Len(ing.results) = Len(topicsToFetch)
        /\ \A k \in 1..Len(topicsToFetch) :
              /\ ing.results[k].timeframe = topicsToFetch[k].timeframe
              /\ ing.results[k].success =>
                    \E i \in RowIds :
                        /\ rows[i].prediction_type = topicsToFetch[k].type
                        /\ ing.passes[k].created \in {0, i}

\* A run has ended whose first horizon failed in the database and whose
\* second horizon inserted its row
C18_Witness ==
    /\ ing.pc = "done"
    /\ Len(ing.results) = Len(topicsToFetch)
    /\ ~ing.results[1].success
    /\ ing.results[1].message = "DB store failed"
    /\ ing.passes[2].created # 0

\* The run found no credential, or a chain selection that is missing or names
\* no chain
BadConfiguration ==
    /\ ing.pc # "idle"
    /\ \/ ~ing.apiKey
       \/ toLowerCase(ing.env) \notin {"mainnet", "testnet"}

\* C19: a run that found the credential missing, or the chain selection
\* missing or invalid, has ended in failure without a pass for any horizon
\* and without a row written.
C19_BadConfigurationAborts ==
    BadConfiguration =>
        /\ ing.pc = "done"
        /\ ~ing.isSuccess
        /\ ing.results = <<>>
        /\ CreatedByRun = {}

\* The run ended with at least one horizon succeeded and at least one failed
PartialSuccess ==
    /\ ing.pc = "done"
    /\ FailedHorizons # {}
    /\ FailedHorizons # 1..Len(ing.results)

\* The status the trigger answers with when every horizon failed
TotalFailureStatus ==
    TriggerStatus(IngestOutcome(
        [k \in 1..Len(topicsToFetch) |->
            Result(topicsToFetch[k].timeframe, FALSE, "No inference data")]).isSuccess)

\* C20: the trigger never answers a run in which one horizon succeeded and
\* another failed with the status it gives to a run in which every horizon
\* failed.
C20_PartialNotReportedAsTotalFailure ==
    PartialSuccess => ing.status # TotalFailureStatus

\* The scoring trigger has answered a request it let through and whose
\* lookup of mature rows succeeded
AnsweredAfterLookup(j) ==
    /\ jobs[j].pc = "done"
    /\ jobs[j].looked
    /\ jobs[j].body.message # "Failed to fetch mature predictions"

\* C21: when the scoring trigger answers a request it let through and whose
\* lookup succeeded, the status is 200 exactly when no row failed (an empty
\* batch included), 207 exactly when a row was updated and a row failed, and
\* 500 exactly when a row failed and none was updated; the 207 and the 500
\* response carry the error of every failed row, the 200 response none.
C21_TriStateStatus ==
    \A j \in JobIds :
        AnsweredAfterLookup(j) =>
            LET job == jobs[j]
            IN  /\ job.status = 200 <=> job.failedCount = 0
                /\ job.status = 207 <=> (job.updatedCount > 0 /\ job.failedCount > 0)
                /\ job.status = 500 <=> (job.updatedCount = 0 /\ job.failedCount > 0)
                /\ job.status \in {207, 500} =>
                      /\ job.body.hasErrors
                      /\ job.body.errors = job.processingErrors
                      /\ Len(job.body.errors) = job.failedCount
                /\ job.status = 200 => ~job.body.hasErrors

\* The trigger has answered 207 for a batch of which one row was updated and
\* one failed
C21_Witness ==
    /\ AnsweredAfterLookup(1)
    /\ jobs[1].status = 207
    /\ jobs[1].updatedCount = 1
    /\ Len(jobs[1].body.errors) = 1

\* The token of the request is the configured secret
TokenMatches(request) ==
    /\ request.cronSecret # <<>>
    /\ replace(request.authHeader, "Bearer ") = request.cronSecret

\* The status the claim gives to a request, 0 for one that is let through:
\* header first, then the secret, then the token
ExpectedRefusal(request) ==
    IF request.authHeader = <<>> THEN 401
    ELSE IF request.cronSecret = <<>> THEN 500
    ELSE IF ~TokenMatches(request) THEN 403
    ELSE 0

\* The scoring trigger has read the store or called the price source for the
\* request it is answering
JobTouched(j) ==
    \/ jobs[j].looked
    \/ jobs[j].batch # <<>>
    \/ jobs[j].fetched # <<>>
    \/ jobs[j].pc \in {"loop", "update"}

\* The ingestion trigger has gone into the action for the request it is
\* answering
IngestTouched ==
    \/ ing.apiKey
    \/ ing.results # <<>>
    \/ ing.passes # <<>>
    \/ ing.pc = "loop"

JobScored(j) == jobs[j].pc = "update"

\* actualPrice and predictedValue of line 148, in cents
ActualOf(j) == jobs[j].actualPrice.v
PredictedOf(j) == parseFloatNumeric(jobs[j].batch[jobs[j].idx].predicted_value).v

\* A number from 0.00 to 100.00
IsPercentage(v) == IsNum(v) /\ 0 <= v.v /\ v.v <= 10000

\* Row r is scored, and that with ground truth actual for a prediction of
\* predicted
ScoredFor(r, actual, predicted) ==
    /\ r.actual_price = Num(actual)
    /\ r.predicted_value = Num(predicted)
    /\ IsNum(r.accuracy)

\* C23: the score calculateAccuracy gives for a ground truth and a prediction
\* (the ground truth positive, zero or negative) is a number from 0.00 to
\* 100.00, and so is the accuracy of every scored row of the table, in every
\* reachable state.
C23_ScoreWithinBounds ==
    /\ \A j \in JobIds : JobScored(j) => IsPercentage(jobs[j].accuracy)
    /\ \A i \in RowIds : ~IsNull(rows[i].accuracy) => IsPercentage(rows[i].accuracy)

\* The table holds a row scored 100.00 for a negative ground truth, where
\* (1 - relativeError) * 100 is far above 100
C23_Witness ==
    \E i \in RowIds :
        /\ ScoredFor(rows[i], -500, 30000)
        /\ rows[i].accuracy = Num(10000)

\* C24: a prediction equal to a positive ground truth is scored 100.00.
C24_ExactPredictionScores100 ==
    \A j \in JobIds :
        (JobScored(j) /\ ActualOf(j) > 0 /\ PredictedOf(j) = ActualOf(j)) =>
            jobs[j].accuracy = Num(10000)

\* The job has scored the prediction 33.33 against the ground truth 33.33
C24_Witness ==
    /\ JobScored(1)
    /\ ActualOf(1) = 3333
    /\ PredictedOf(1) = 3333
    /\ jobs[1].accuracy = Num(10000)

\* C25: against a ground truth of 0 the prediction 0 is scored 100.00 and
\* every other prediction 0.00; the score is a number, no quotient by zero.
C25_ZeroActual ==
    \A j \in JobIds :
        (JobScored(j) /\ ActualOf(j) = 0) =>
            jobs[j].accuracy = IF PredictedOf(j) = 0 THEN Num(10000) ELSE Num(0)

\* The table holds a row scored 100.00 for prediction 0 against ground truth 0
C25_Witness ==
    \E i \in RowIds :
        /\ ScoredFor(rows[i], 0, 0)
        /\ rows[i].accuracy = Num(10000)

\* C26: against a positive ground truth a prediction that is off by the
\* ground truth or more (a negative prediction included) is scored 0.00, and
\* a prediction that is off by a tenth of the ground truth, above or below,
\* is scored 90.00.
C26_ClampAtZeroAndTenPercent ==
    \A j \in JobIds :
        (JobScored(j) /\ ActualOf(j) > 0) =>
            /\ Abs(ActualOf(j) - PredictedOf(j)) >= ActualOf(j) => jobs[j].accuracy = Num(0)
            /\ 10 * Abs(ActualOf(j) - PredictedOf(j)) = ActualOf(j) => jobs[j].accuracy = Num(9000)

\* The job has scored 300.00 against 0.50 with 0.00: an error of 599 times the
\* ground truth
C26_Witness ==
    /\ JobScored(1)
    /\ ActualOf(1) = 50
    /\ PredictedOf(1) = 30000
    /\ jobs[1].accuracy = Num(0)

\* num / den rounded to the nearest integer, a half rounded up, for bignums
BigRoundHalfUp(num, den) == ToInt(BigDivMod(BigAdd(BigMulSmall(num, 2), den), BigMulSmall(den, 2)).q)

\* The formula of lines 43-52 in exact arithmetic, in hundredths of a percent:
\* (1 - |actual - predicted| / actual) * 100, no lower than 0 and no higher
\* than 100, rounded to two decimals with a half rounded up; actual # 0
ExactScore(actual, predicted) ==
    IF actual < 0 THEN 10000
    ELSE IF Abs(actual - predicted) >= actual THEN 0
    ELSE BigRoundHalfUp(BigMulSmall(Limbs(actual - Abs(actual - predicted)), 10000), Limbs(actual))

\* C27: for a ground truth other than 0 the score is the exact value of
\* (1 - |actual - predicted| / actual) * 100, clamped to [0, 100] and rounded
\* to two decimals with a half rounded up.
C27_ScoreIsExactHalfUp ==
    \A j \in JobIds :
        (JobScored(j) /\ ActualOf(j) # 0) =>
            jobs[j].accuracy = Num(ExactScore(ActualOf(j), PredictedOf(j)))

\* The metrics action of the given file has handed back its data
MetricsAnswered(file) == met.pc = "done" /\ met.isSuccess /\ met.file = file

\* The three KPIs and the days of their windows
KpiWindowDays == [daily |-> 1, weekly |-> 7, monthly |-> 30]

\* The scored rows whose prediction_end_timestamp is in [endDate - days, endDate)
ScoredInWindow(days, endDate) ==
    { i \in RowIds : /\ Scored(rows[i])
                     /\ rows[i].prediction_end_timestamp >= DaysAgo(endDate, days)
                     /\ rows[i].prediction_end_timestamp < endDate }

\* The mean of the accuracies of the rows S to two decimals, null for no row
MeanAccuracy(S) ==
    IF S = {} THEN NullV
    ELSE Num(RoundedAverage(NumericText(SumOfAccuracy(rows, S), Cardinality(S))))

\* The second in which the call read the clock
SecondOfCall == met.now - (met.now % MS_PER_SECOND)

\* C28: each KPI that accuracy-actions.ts hands back is null exactly when no
\* scored row lies in its window, the 24 hours, 7 days or 30 days before the
\* second of the call; with a scored row in the window it is a number, and
\* it is the number 0 when every score in the window is 0.
C28_KpiNullIffNoScoredRow ==
    MetricsAnswered("src/actions/db/accuracy-actions.ts") =>
        \A k \in DOMAIN KpiWindowDays :
            /\ IsNull(met.data.kpiMetrics[k]) <=>
                  ScoredInWindow(KpiWindowDays[k], SecondOfCall) = {}
            /\ ScoredInWindow(KpiWindowDays[k], SecondOfCall) # {} =>
                  IsNum(met.data.kpiMetrics[k])
            /\ ( /\ ScoredInWindow(KpiWindowDays[k], SecondOfCall) # {}
                 /\ \A i \in ScoredInWindow(KpiWindowDays[k], SecondOfCall) :
                        rows[i].accuracy = Num(0) ) =>
                  met.data.kpiMetrics[k] = Num(0)

\* The only scored row is a day and a second old and scored 0.00: the daily
\* KPI is null, the weekly and the monthly KPI are the number 0
C28_Witness ==
    /\ MetricsAnswered("src/actions/db/accuracy-actions.ts")
    /\ Len(rows) = 1
    /\ rows[1].accuracy = Num(0)
    /\ rows[1].prediction_end_timestamp = DaysAgo(MetricsNow, 1) - MS_PER_SECOND
    /\ IsNull(met.data.kpiMetrics.daily)
    /\ met.data.kpiMetrics.weekly = Num(0)
    /\ met.data.kpiMetrics.monthly = Num(0)

\* C29: each KPI is the mean of accuracy over exactly the scored rows whose
\* prediction_end_timestamp lies in [now - window, now), now being the
\* reading of the clock of the call and window 24 hours, 7 days and 30 days;
\* rows that only their created_at puts into the period do not count.
C29_KpiIsMeanOverMaturityWindow ==
    (met.pc = "done" /\ met.isSuccess) =>
        \A k \in DOMAIN KpiWindowDays :
            met.data.kpiMetrics[k] = MeanAccuracy(ScoredInWindow(KpiWindowDays[k], met.now))

\* The k-th day of a set of day numbers, from the earliest
KthDay(D, k) == CHOOSE d \in D : Cardinality({ e \in D : e < d }) = k - 1

\* The days that have a scored row in the 30 days before endDate
ScoredDays(endDate) ==
    { DayOf(rows[i].prediction_end_timestamp) : i \in ScoredInWindow(30, endDate) }

\* The point of the trend for day d
PointOfDay(d, endDate) ==
    [ x |-> MonthAndDay(DateOfDay(d)),
      y |-> MeanAccuracy({ i \in ScoredInWindow(30, endDate) :
                           DayOf(rows[i].prediction_end_timestamp) = d }) ]

KillStep(j) == jobs[j].pc \in {"loop", "update"} /\ jobs'[j] = JobIdle

\* The positions of the batch of invocation j whose row is scored in tbl
UpdatedOf(j, tbl) ==
    { k \in 1..Len(jobs[j].batch) : Scored(tbl[jobs[j].batch[k].id]) }

\* C31: when a scoring invocation is killed anywhere in its batch, the rows
\* it has updated are as many as it counted, lie before its position and
\* have both actual_price and accuracy; every other row of the batch is
\* exactly as the lookup returned it, with neither; the kill itself writes
\* nothing; and a lookup made afterwards, at an instant not before the
\* killed invocation's own, returns each row that was left and none that
\* was updated. Every lookup returns exactly the unscored rows that ended
\* before its instant, each once.
C31_KillLeavesRowsScoredOrUntouched ==
    [][/\ KillStep(1) =>
            LET job == jobs[1]
                updated == UpdatedOf(1, rows)
            IN  /\ rows' = rows
                /\ Cardinality(updated) = job.updatedCount
                /\ \A k \in 1..Len(job.batch) :
                      IF k \in updated
                      THEN k < job.idx
                      ELSE /\ rows[job.batch[k].id] = job.batch[k]
                           /\ Unscored(rows[job.batch[k].id])
                /\ \A now \in JobClock :
                      now >= job.lookupNow =>
                          LET next == getMaturePredictionsForUpdateAction(rows', now)
                          IN  \A k \in 1..Len(job.batch) :
                                 (job.batch[k] \in Range(next)) <=> (k \notin updated)
       /\ LookupStep(1) =>
            /\ \A i \in RowIds :
                  (rows[i] \in Range(jobs'[1].batch)) <=>
                      (Unscored(rows[i])
                          /\ rows[i].prediction_end_timestamp < jobs'[1].lookupNow)
            /\ \A a, b \in 1..Len(jobs'[1].batch) :
                  a < b => jobs'[1].batch[a].id # jobs'[1].batch[b].id]_vars

\* An invocation was killed after it had scored the first of two mature
\* rows: nothing of it is left, one row has both values, the other has
\* neither, and a lookup made now returns the second row alone.
C31_Witness ==
    /\ jobs[1].pc = "idle"
    /\ Len(rows) = 2
    /\ Scored(rows[1])
    /\ Unscored(rows[2])
    /\ \E now \in JobClock :
          getMaturePredictionsForUpdateAction(rows, now) = <<rows[2]>>


\* A step that is a call of updatePredictionWithAccuracyAction
UpdateCallStep == <<rows, upd>>' # <<rows, upd>> /\ upd'.pc = "done"

\* The columns the update does not name
KeptColumns ==
    { "id", "prediction_type", "predicted_value", "confidence_interval_lower",
      "confidence_interval_upper", "prediction_end_timestamp", "raw_inference_data",
      "created_at" }

\* C32: a call of updatePredictionWithAccuracyAction leaves the number of
\* rows as it was, leaves every row with another id exactly as it was, and
\* changes nothing of the row with the given id but actual_price, accuracy
\* and updated_at; when it reports success, that row holds the two given
\* values; when it reports a failure, or no row has the given id, the table
\* is exactly as before, and for an id that no row has it always reports a
\* failure.
C32_UpdateChangesThreeColumnsOfOneRow ==
    [][UpdateCallStep =>
          /\ Len(rows') = Len(rows)
          /\ \A i \in RowIds :
                IF rows[i].id = upd'.id
                THEN /\ \A c \in KeptColumns : rows'[i][c] = rows[i][c]
                     /\ upd'.isSuccess =>
                           /\ rows'[i].actual_price = upd'.data.actual_price
                           /\ rows'[i].accuracy = upd'.data.accuracy
                ELSE rows'[i] = rows[i]
          /\ ~upd'.isSuccess => rows' = rows
          /\ (\A i \in RowIds : rows[i].id # upd'.id) =>
                ~upd'.isSuccess /\ rows' = rows]_vars

\* The last call was made with numbers for an id that no row has and
\* reported a failure; the table holds its two rows, one scored by an earlier
\* call and one never scored.
C32_Witness ==
    /\ upd.pc = "done"
    /\ upd.id = Len(rows) + 1
    /\ IsNum(upd.data.accuracy)
    /\ ~upd.isSuccess
    /\ Len(rows) = 2
    /\ \E i, k \in RowIds : Scored(rows[i]) /\ Unscored(rows[k])


\* The row invocation j is working on, as the lookup returned it
CurrentRow(j) == jobs[j].batch[jobs[j].idx]

\* The last entry of processingErrors of invocation j after the step
LastError(j) == jobs'[j].processingErrors[Len(jobs'[j].processingErrors)]

\* C33: the fetcher is called for the row at hand with that row's
\* prediction_end_timestamp, and only from the loop; when it hands back its
\* result the row fails on a failed fetch first, on a predicted_value that
\* cannot be parsed second, and is scored otherwise; the table is written
\* only after that, and a row that is written gets the price the fetcher
\* handed back for its prediction_end_timestamp as actual_price and
\* calculateAccuracy(that price, its predicted_value) as accuracy; a row whose
\* predicted_value cannot be parsed stays unscored.
C33_StoredValuesAreFetchedAndScored ==
    [][/\ (jobs'[1].pc = "fetch" /\ jobs'[1] # jobs[1]) =>
            /\ jobs[1].pc = "loop"
            /\ fx'.pc = "attempt"
            /\ fx'.target = CurrentRow(1).prediction_end_timestamp
            /\ fx'.target = rows[CurrentRow(1).id].prediction_end_timestamp
       /\ (jobs[1].pc = "fetch" /\ jobs'[1] # jobs[1]) =>
            /\ fx.pc = "done"
            /\ rows' = rows
            /\ IF ~fx.result.isSuccess
               THEN /\ jobs'[1].pc = "loop"
                    /\ LastError(1) =
                          ProcessingError(CurrentRow(1).id, "Failed to fetch price")
               ELSE IF ~IsNum(parseFloatNumeric(CurrentRow(1).predicted_value))
               THEN /\ jobs'[1].pc = "loop"
                    /\ LastError(1) =
                          ProcessingError(CurrentRow(1).id, "Invalid predicted_value format")
               ELSE /\ jobs'[1].pc = "update"
                    /\ jobs'[1].actualPrice = fx.result.price
                    /\ jobs'[1].accuracy =
                          calculateAccuracy(fx.result.price,
                              parseFloatNumeric(CurrentRow(1).predicted_value))
       /\ rows' # rows =>
            LET id == CurrentRow(1).id
            IN  /\ UpdatedStep(1)
                /\ jobs[1].pc = "update"
                /\ fx.pc = "done"
                /\ fx.result.isSuccess
                /\ fx.target = rows[id].prediction_end_timestamp
                /\ rows'[id].actual_price = fx.result.price
                /\ IsNum(parseFloatNumeric(rows[id].predicted_value))
                /\ rows'[id].accuracy =
                      calculateAccuracy(fx.result.price,
                                        parseFloatNumeric(rows[id].predicted_value))
       /\ \A i \in RowIds :
            ~IsNum(parseFloatNumeric(rows'[i].predicted_value)) => Unscored(rows'[i])]_vars

\* A run over two rows has passed both: for the row whose predicted_value
\* cannot be parsed a price was fetched and the row was left unscored; the
\* other row, predicted at 100.00, holds the price 110.00 that the fetcher
\* handed back last for its prediction_end_timestamp, and the score 90.91.
C33_Witness ==
    /\ jobs[1].pc = "loop"
    /\ jobs[1].idx = 3
    /\ Len(jobs[1].fetched) = 2
    /\ jobs[1].processingErrors =
          <<ProcessingError(jobs[1].batch[1].id, "Invalid predicted_value format")>>
    /\ Unscored(rows[jobs[1].batch[1].id])
    /\ fx.result.isSuccess
    /\ fx.target = rows[jobs[1].batch[2].id].prediction_end_timestamp
    /\ rows[jobs[1].batch[2].id].actual_price = fx.result.price
    /\ rows[jobs[1].batch[2].id].actual_price = Num(11000)
    /\ rows[jobs[1].batch[2].id].accuracy = Num(9091)


\* Invocation j made its lookup and the lookup did not succeed
LookupHasFailed(j) == jobs[j].looked /\ ~jobs[j].lookupIsSuccess

\* C34: an invocation whose lookup of mature rows failed has ended with
\* status 500 and the message of a failed lookup, not the body of an empty
\* batch nor a summary; it has no batch, has called the ground-truth fetcher
\* for no row and has updated none; the step in which the lookup fails and
\* every step up to the next invocation leave the table as it was.
C34_FailedLookupAnswers500 ==
    [][\A j \in JobIds :
          /\ LookupHasFailed(j) =>
                /\ jobs[j].pc = "done"
                /\ jobs[j].status = 500
                /\ jobs[j].body = Body("Failed to fetch mature predictions", FALSE, <<>>)
                /\ jobs[j].batch = <<>>
                /\ jobs[j].fetched = <<>>
                /\ jobs[j].updatedCount = 0
                /\ jobs'[j] # jobs[j] => jobs[j].pc = "done" /\ rows' = rows
          /\ (jobs[j].pc \in {"idle", "done"} /\ LookupHasFailed(j)') => rows' = rows]_vars

\* The lookup has failed although the table holds a row that a lookup would
\* return; the trigger has answered 500 and the row is still unscored.
C34_Witness ==
    /\ LookupHasFailed(1)
    /\ jobs[1].status = 500
    /\ jobs[1].fetched = <<>>
    /\ \E now \in JobClock : Len(getMaturePredictionsForUpdateAction(rows, now)) = 2
    /\ \A i \in RowIds : Unscored(rows[i])


\* The rows of the table with the prediction_type and the
\* prediction_end_timestamp of row i
SameTypeAndEnd(i) ==
    { k \in RowIds :
        /\ rows[k].prediction_type = rows[i].prediction_type
        /\ rows[k].prediction_end_timestamp = rows[i].prediction_end_timestamp }

\* C35: when two invocations of ingestion overlap, however their lookups
\* and inserts interleave, the table never holds more than one row for a
\* prediction_type and a prediction_end_timestamp.
C35_NoDuplicateUnderOverlap ==
    \A i \in RowIds : Cardinality(SameTypeAndEnd(i)) = 1


\* A step in which the row that invocation j is working on fails
FailedStep(j) == jobs'[j].failedCount > jobs[j].failedCount

\* The ids of the rows that failed in the run of invocation j
FailedIds(j) ==
    { jobs[j].processingErrors[k].predictionId : k \in 1..Len(jobs[j].processingErrors) }

\* C36: a step in which a row of a scoring run fails, be it for a failed
\* fetch, a predicted_value that cannot be parsed, a failed update or an
\* exception, writes nothing; the row is then exactly as the lookup of the
\* run returned it, unscored, and a lookup at any instant from that of the
\* run on returns it. The lookup of the next run, made at such an instant,
\* has every row that failed in the run before in its batch, unchanged.
C36_FailedRowIsLeftAndRetried ==
    [][/\ FailedStep(1) =>
            LET row == CurrentRow(1)
            IN  /\ rows' = rows
                /\ rows'[row.id] = row
                /\ Unscored(rows'[row.id])
                /\ LastError(1).predictionId = row.id
                /\ \A now \in JobClock :
                      now >= jobs[1].lookupNow =>
                          row \in Range(getMaturePredictionsForUpdateAction(rows', now))
       /\ (/\ jobs[1].pc = "done"
           /\ LookupStep(1)
           /\ jobs'[1].lookupIsSuccess
           /\ jobs'[1].lookupNow >= jobs[1].lookupNow) =>
            \A id \in FailedIds(1) :
                \E k \in 1..Len(jobs[1].batch), n \in 1..Len(jobs'[1].batch) :
                    /\ jobs[1].batch[k].id = id
                    /\ jobs'[1].batch[n] = jobs[1].batch[k]
                    /\ rows[id] = jobs[1].batch[k]]_vars

\* A run over two rows has ended with status 500: the update of the first
\* row failed, the predicted_value of the second could not be parsed, and
\* both rows are unscored.
C36_Witness ==
    /\ jobs[1].pc = "done"
    /\ jobs[1].status = 500
    /\ Len(jobs[1].processingErrors) = 2
    /\ jobs[1].processingErrors[1].error = "Failed to update accuracy"
    /\ jobs[1].processingErrors[2].error = "Invalid predicted_value format"
    /\ \A i \in RowIds : Unscored(rows[i])


\* parseFloat reads the predicted_value of row i
Parsable(i) == IsNum(parseFloatNumeric(rows[i].predicted_value))

\* C37 (as stated): with the ground-truth source and the database
\* answering and the job invoked again and again, every row whose
\* prediction_end_timestamp has passed is eventually scored.
C37_EveryMatureRowEventuallyScored ==
    \A i \in 1..2 : (Len(rows) >= i) ~> Scored(rows[i])

\* C37 (amended): with the ground-truth source and the database answering
\* and the job invoked again and again, every row whose predicted_value
\* parseFloat can read is eventually scored once its prediction_end_timestamp
\* has passed, also when a row that fails in every run stands before it in
\* the batch; a row whose predicted_value cannot be read is never scored.
C37_EveryParsableRowEventuallyScored ==
    /\ \A i \in 1..2 : (Len(rows) >= i /\ Parsable(i)) ~> Scored(rows[i])
    /\ [](\A i \in RowIds : ~Parsable(i) => Unscored(rows[i]))

\* A run is past both rows of its batch: the first, whose predicted_value
\* cannot be read, has failed once more, and the second has been scored by
\* this run.
C37_Witness ==
    /\ jobs[1].pc \in {"loop", "done"}
    /\ Len(jobs[1].batch) = 2
    /\ jobs[1].idx = 3
    /\ jobs[1].batch[1].id = 1
    /\ ~Parsable(1)
    /\ jobs[1].processingErrors =
          <<ProcessingError(1, "Invalid predicted_value format")>>
    /\ Unscored(rows[1])
    /\ jobs[1].updatedCount = 1
    /\ Scored(rows[2])


\* The Authorization header of the request is 'Bearer ' followed by the
\* configured secret, and nothing else
ExactBearerHeader(request) ==
    /\ request.cronSecret # <<>>
    /\ request.authHeader = <<"Bearer ">> \o request.cronSecret

\* The request carries a header, a secret is configured, and the header is
\* not 'Bearer ' followed by that secret
InexactHeader(request) ==
    /\ request.authHeader # <<>>
    /\ request.cronSecret # <<>>
    /\ ~ExactBearerHeader(request)

\* C38: a bearer-token trigger goes on to its job only for a request whose
\* Authorization header is exactly 'Bearer ' followed by CRON_SECRET; with a
\* secret configured, every other header, the bare secret included, is
\* answered 403 and nothing is read, written or fetched for it.
C38_OnlyExactBearerHeaderRuns ==
    /\ \A j \in JobIds :
          /\ JobTouched(j) => ExactBearerHeader(jobs[j].request)
          /\ (jobs[j].pc # "idle" /\ InexactHeader(jobs[j].request)) =>
                jobs[j].pc = "done" /\ jobs[j].status = 403
    /\ IngestTouched => ExactBearerHeader(ing.request)
    /\ (ing.pc # "idle" /\ InexactHeader(ing.request)) =>
          ing.pc = "done" /\ ing.status = 403


\* C39: in the result of one metrics computation the monthly KPI is null
\* exactly when the daily trend has no point, a daily KPI that is a number
\* comes with a weekly KPI that is a number, and a weekly KPI that is a
\* number comes with a monthly KPI that is a number, whatever the scoring
\* job writes while the computation runs.
C39_KpisAndTrendConsistent ==
    (met.pc = "done" /\ met.isSuccess) =>
        /\ IsNull(met.data.kpiMetrics.monthly) <=> met.data.trendData = <<>>
        /\ ~IsNull(met.data.kpiMetrics.daily) => ~IsNull(met.data.kpiMetrics.weekly)
        /\ ~IsNull(met.data.kpiMetrics.weekly) => ~IsNull(met.data.kpiMetrics.monthly)

====
